---- MODULE Spec2Model ----
(***************************************************************************)
(* Frame capture and multi-angle export pipeline of sprite_sheet:          *)
(*   useExport.tsx (renderFrame, exportFrame, exportSpriteSheet,           *)
(*   exportSequence), SafeMultiExport.tsx (handleExport) and               *)
(*   useSafeModelCalibration.tsx (analyzeModel, applyCalibration,          *)
(*   manualCalibrate, setFrontFace, rotateToAngle, saveProfile,            *)
(*   loadProfile, reset, useAnimation), useFrameEditor.tsx                 *)
(*   (importFramesFromFolder, toggleFrame, the playback effect,            *)
(*   exportAsSpriteSheet) and pages/FrameEditor.tsx (the handlers of the   *)
(*   controls).                                                            *)
(* Every async function is cut at its awaits: one action per synchronous   *)
(* stretch of code between two suspension points.                          *)
(***************************************************************************)
EXTENDS Integers, Sequences, FiniteSets, TLC

VARIABLES
    width, height,      \* useExport state: requested export size
    renderSteps,        \* useExport state: sampling setting
    outputFolder,       \* useExport state: selected output root ("" = null)
    gfx,                \* renderer + scene + camera + composer (shared, mutable)
    sceneFrame,         \* frame the animation layer currently shows
    rotationY,          \* container.rotation.y of "importedModel", in units of pi/4
    sceneAvail,         \* environment: canvas.__r3f.fiber has renderer, scene and camera
    rfPc, rfCaller,     \* renderFrame: position, and who awaits it
    rfSnap,             \* renderFrame: the "original*" locals
    rfPre,              \* history: the whole gfx at the moment renderFrame was called
    rfResult,           \* renderFrame: raster it resolved with
    efPc,               \* exportFrame: position
    plPc,               \* position of the planning walk-through
    framesToRender,     \* exportSequence: the planned frame indices
    sheet,              \* exportSpriteSheet: grid and canvas it computed
    currentAnimation,   \* useAnimation state handed to the export panel (<<>> = null)
    calibration,        \* useSafeModelCalibration state (<<>> = null)
    hasContainer,       \* environment: the scene holds the "importedModel" container
    apis,               \* environment: which bridge objects exist on window
    totalFrames,        \* useAnimation state handed to the export panel
    selectedAngles,     \* SafeMultiExport state
    isExporting, exportProgress, currentAngle, \* SafeMultiExport state
    hPc, hI, hAngles,   \* handleExport: position, loop index, selectedAngles of its closure
    sPc, sI,            \* exportSequence: position and loop index
    ssPc, ssI,          \* exportSpriteSheet: position and loop index
    ssCells,            \* exportSpriteSheet: frames drawn into the sheet canvas so far
    fsDirs, fsFiles,    \* host file system behind the bridge
    toasts,             \* error toasts, oldest first
    seqInFlight,        \* history: number of exportSequence calls not yet settled
    batchLog,           \* history: steps of the batch, oldest first
    seqLog,             \* history: steps of the frame loop of the exportSequence call, oldest first
    model,              \* the loaded model the page hands to manualCalibrate
    isCalibrating,      \* useSafeModelCalibration state
    calTimers,          \* number of pending 100 ms timers of manualCalibrate
    containerScale,     \* container.scale of "importedModel" (setScalar)
    containerY,         \* container.position.y of "importedModel"
    profiles,           \* localStorage['sprite-calibration-profiles'], name -> entry (<<>> = absent)
    calOp, calArg,      \* the hook operation that ran last, and its argument
    calReturn,          \* what that operation returned
    frames,             \* useFrameEditor state: the ingested frames, in order
    isLoading, fps,     \* useFrameEditor state
    editorCurrentFrame, \* useFrameEditor state: currentFrame
    editorIsPlaying,    \* useFrameEditor state: isPlaying
    editorAnimationFrameRef, \* useFrameEditor: animationFrameRef.current (0 = null)
    editorLastFrameTimeRef,  \* useFrameEditor: lastFrameTimeRef.current is set
    editorCleanup,      \* useFrameEditor: the playback effect left a cleanup to run
    editorStopQueued,   \* useFrameEditor: setIsPlaying(false) of the effect awaits its render
    rafQueue,           \* browser: the requestAnimationFrame callbacks not yet run
    imPc, imI,          \* importFramesFromFolder: position and loop index
    folder,             \* environment: listing of the directory the user picks
    imageFiles,         \* importFramesFromFolder: the filtered, sorted file names
    loadedFrames,       \* importFramesFromFolder: the frames loaded so far
    xsPc, xsI,          \* exportAsSpriteSheet (editor): position and loop index
    xsActive,           \* exportAsSpriteSheet (editor): activeFrames of the call
    xsCanvas,           \* exportAsSpriteSheet (editor): the canvas and what was drawn
    downloads,          \* browser: the canvases handed to a download link, oldest first
    isPlaying,          \* useAnimation state
    currentFrame,       \* useAnimation state
    animations,         \* useAnimation state: the names of the model's clips
    animationFrameRef,  \* useAnimation: animationFrameRef.current (0 = null)
    lastFrameTimeRef,   \* useAnimation: lastFrameTimeRef.current is set
    animationCleanup    \* useAnimation: the playback effect left a cleanup to run

vars == << width, height, renderSteps, outputFolder, gfx, sceneFrame, rotationY,
           sceneAvail, rfPc, rfCaller, rfSnap, rfPre, rfResult, efPc,
           plPc, framesToRender, sheet, totalFrames, currentAnimation,
           calibration, hasContainer, apis, hAngles,
           selectedAngles, isExporting, exportProgress, currentAngle,
           hPc, hI, sPc, sI, ssPc, ssI, ssCells, fsDirs, fsFiles, toasts,
           seqInFlight, batchLog, seqLog, model, isCalibrating, calTimers,
           containerScale, containerY, profiles, calOp, calArg, calReturn,
           frames, isLoading, fps, editorCurrentFrame, editorIsPlaying,
           editorAnimationFrameRef, editorLastFrameTimeRef, editorCleanup,
           editorStopQueued, rafQueue, imPc, imI, folder, imageFiles,
           loadedFrames, xsPc, xsI, xsActive, xsCanvas, downloads,
           isPlaying, currentFrame, animations, animationFrameRef,
           lastFrameTimeRef, animationCleanup >>

hookVarsButReturn == << model, isCalibrating, calTimers, containerScale, containerY,
                        profiles >>
hookVars == << model, isCalibrating, calTimers, containerScale, containerY,
               profiles, calOp, calArg, calReturn >>
panelVars == << width, height, renderSteps, outputFolder, sceneAvail, apis,
                currentAnimation, totalFrames, hasContainer, selectedAngles >>
playbackVars == << frames, fps, editorCurrentFrame, editorIsPlaying,
                   editorAnimationFrameRef, editorLastFrameTimeRef, editorCleanup,
                   editorStopQueued >>
importVars == << isLoading, imPc, imI, folder, imageFiles, loadedFrames >>
editorSheetVars == << xsPc, xsI, xsActive, xsCanvas, downloads >>
editorVars == << playbackVars, importVars, editorSheetVars >>
animationVars == << isPlaying, currentFrame, animations, animationFrameRef,
                    lastFrameTimeRef, animationCleanup >>
pageVars == << editorVars, animationVars, rafQueue >>
settingsVars == << panelVars, calibration, hookVars, pageVars >>
captureVars == << gfx, rfPc, rfCaller, rfSnap, rfPre, rfResult >>
seqVars == << sPc, sI, framesToRender >>
sheetVars == << ssPc, ssI, ssCells, sheet >>
handleVars == << isExporting, exportProgress, currentAngle, hPc, hI, hAngles >>
worldVars == << sceneFrame, rotationY, fsDirs, fsFiles, toasts >>
histVars == << seqInFlight, batchLog, seqLog >>

----------------------------------------------------------------------------
(* Bounds of the model *)

MaxDim == 3          \* export width and height range over 1..MaxDim
MaxSurface == 4      \* render-surface width and height range over 2..MaxSurface
MaxPixelRatio == 2   \* device pixel ratio ranges over 1..MaxPixelRatio
MaxTotalFrames == 12 \* planning: totalFrames ranges over 0..MaxTotalFrames
MaxRenderSteps == 13 \* planning: renderSteps ranges up to MaxRenderSteps
MaxNegSteps == 2     \* planning: renderSteps ranges down to -MaxNegSteps
MaxBatchFrames == 3  \* batch: totalFrames ranges over 0..MaxBatchFrames
MaxBatchSteps == 2   \* batch: renderSteps ranges over 0..MaxBatchSteps
MaxAngles == 2       \* batch: at most MaxAngles angles are selected
MaxCalTimers == 1    \* calibration: at most MaxCalTimers timers of manualCalibrate are pending
MaxFrontFace == 1    \* calibration: the front face is set at rotations within -MaxFrontFace..MaxFrontFace
MaxHeightNum == 6    \* analyzeModel: bounding heights are n/d with n in 0..MaxHeightNum
MaxLowestPoint == 2  \* analyzeModel: lowest points are k/2 with k in -MaxLowestPoint..MaxLowestPoint

----------------------------------------------------------------------------
(* Numbers: JavaScript numbers that are not integers are kept as fractions *)

Abs(x) == IF x < 0 THEN -x ELSE x

Max(a, b) == IF a > b THEN a ELSE b

RECURSIVE GCD(_, _)
GCD(a, b) == IF b = 0 THEN a ELSE GCD(b, a % b)

\* the fraction n/d, d > 0, in lowest terms
Rat(n, d) == LET g == GCD(Abs(n), d) IN [n |-> n \div g, d |-> d \div g]

RInt(i) == [n |-> i, d |-> 1]
RAdd(a, b) == Rat(a.n * b.d + b.n * a.d, a.d * b.d)
RSub(a, b) == Rat(a.n * b.d - b.n * a.d, a.d * b.d)
RMul(a, b) == Rat(a.n * b.n, a.d * b.d)
RHalf(a) == Rat(a.n, 2 * a.d)

\* the value of a local that was declared and never assigned
Undef == [n |-> 0, d |-> 0]

----------------------------------------------------------------------------
(* The renderer, scene and camera, as the capture code reads and writes them *)

\* THREE.WebGLRenderer.setSize(w, h, false)
RendererSetSize(g, w, h) ==
    [g EXCEPT !.size = [w |-> w, h |-> h],
              !.canvas = [w |-> w * g.pixelRatio, h |-> h * g.pixelRatio]]

\* THREE.WebGLRenderer.setPixelRatio(v): sets the ratio, then setSize(_width, _height, false)
RendererSetPixelRatio(g, v) ==
    RendererSetSize([g EXCEPT !.pixelRatio = v], g.size.w, g.size.h)

\* EffectComposer.setSize, when a composer hangs on the canvas
ComposerSetSize(g, w, h) ==
    IF g.composer THEN [g EXCEPT !.composerSize = [w |-> w, h |-> h]] ELSE g

\* the "original*" locals of renderFrame
Snapshot(g) ==
    [ size |-> g.size,
      clearColor |-> g.clearColor,
      clearAlpha |-> g.clearAlpha,
      background |-> g.background,
      pixelRatio |-> g.pixelRatio,
      camPos |-> g.camPos,
      camRot |-> g.camRot,
      camZoom |-> g.camZoom,
      aspect |-> IF g.camType = "perspective" THEN g.aspect ELSE Undef,
      fov |-> IF g.camType = "perspective" THEN g.fov ELSE Undef,
      far |-> IF g.camType \in {"perspective", "orthographic"} THEN g.far ELSE Undef,
      near |-> IF g.camType \in {"perspective", "orthographic"} THEN g.near ELSE Undef,
      left |-> IF g.camType = "orthographic" THEN g.left ELSE Undef,
      right |-> IF g.camType = "orthographic" THEN g.right ELSE Undef,
      top |-> IF g.camType = "orthographic" THEN g.top ELSE Undef,
      bottom |-> IF g.camType = "orthographic" THEN g.bottom ELSE Undef ]

\* camera projection forced to the export aspect
CameraToExportAspect(g, w, h) ==
    CASE g.camType = "perspective" -> [g EXCEPT !.aspect = Rat(w, h)]
      [] g.camType = "orthographic" ->
            LET currentHeight == RSub(g.top, g.bottom)
                currentWidth == RSub(g.right, g.left)
                newWidth == RMul(currentHeight, Rat(w, h))
                widthDiff == RSub(newWidth, currentWidth)
            IN [g EXCEPT !.left = RSub(g.left, RHalf(widthDiff)),
                         !.right = RAdd(g.right, RHalf(widthDiff))]
      [] OTHER -> g

\* the capture-time state: export size, pixel ratio 1, transparent clear
\* colour, no background, export aspect, composer resized
CaptureSetup(g, w, h) ==
    LET g1 == RendererSetPixelRatio(RendererSetSize(g, w, h), 1)
        g2 == [g1 EXCEPT !.clearColor = "black", !.clearAlpha = 0,
                         !.background = "null"]
    IN ComposerSetSize(CameraToExportAspect(g2, w, h), w, h)

RestoreNoPixelRatio(g, o) ==
    LET g1 == RendererSetSize(g, o.size.w, o.size.h)
        g2 == [g1 EXCEPT !.clearColor = o.clearColor, !.clearAlpha = o.clearAlpha]
        g4 == [g2 EXCEPT !.background = o.background,
                         !.camPos = o.camPos, !.camRot = o.camRot,
                         !.camZoom = o.camZoom]
        g5 == CASE g4.camType = "perspective" /\ o.aspect # Undef ->
                        [g4 EXCEPT !.aspect = o.aspect, !.fov = o.fov,
                                   !.far = o.far, !.near = o.near]
                [] g4.camType = "orthographic" /\ o.left # Undef ->
                        [g4 EXCEPT !.left = o.left, !.right = o.right,
                                   !.top = o.top, !.bottom = o.bottom,
                                   !.far = o.far, !.near = o.near]
                [] OTHER -> g4
    IN ComposerSetSize(g5, o.size.w, o.size.h)

\* the finally block of renderFrame
Restore(g, o) ==
    LET g1 == RendererSetSize(g, o.size.w, o.size.h)
        g2 == [g1 EXCEPT !.clearColor = o.clearColor, !.clearAlpha = o.clearAlpha]
        g3 == RendererSetPixelRatio(g2, o.pixelRatio)
        g4 == [g3 EXCEPT !.background = o.background,
                         !.camPos = o.camPos, !.camRot = o.camRot,
                         !.camZoom = o.camZoom]
        g5 == CASE g4.camType = "perspective" /\ o.aspect # Undef ->
                        [g4 EXCEPT !.aspect = o.aspect, !.fov = o.fov,
                                   !.far = o.far, !.near = o.near]
                [] g4.camType = "orthographic" /\ o.left # Undef ->
                        [g4 EXCEPT !.left = o.left, !.right = o.right,
                                   !.top = o.top, !.bottom = o.bottom,
                                   !.far = o.far, !.near = o.near]
                [] OTHER -> g4
    IN ComposerSetSize(g5, o.size.w, o.size.h)

----------------------------------------------------------------------------
(* renderFrame: the raster *)

\* the source rectangle drawn from the renderer's canvas (centre crop when
\* the aspects differ by more than 0.01); Math.round(x) = floor(x + 1/2)
SourceRect(canvas, w, h) ==
    LET cw == canvas.w
        ch == canvas.h
        differs == Abs(cw * h - w * ch) * 100 > ch * h
        wider == cw * h > w * ch
        sw == IF differs /\ wider THEN (2 * ch * w + h) \div (2 * h) ELSE cw
        sh == IF differs /\ ~wider THEN (2 * cw * h + w) \div (2 * w) ELSE ch
    IN [ x |-> IF differs /\ wider THEN (cw - sw + 1) \div 2 ELSE 0,
         y |-> IF differs /\ ~wider THEN (ch - sh + 1) \div 2 ELSE 0,
         w |-> sw, h |-> sh ]

ExportCanvasSwapped(w, h) == [w |-> h, h |-> w]

\* document.createElement('canvas') sized to the export dimensions
ExportCanvas(w, h) == [w |-> w, h |-> h]

\* exportCanvas.toDataURL after drawImage: a PNG of the export canvas's size
\* showing the scene as it is posed now
DataURL(g, w, h) ==
    LET c == ExportCanvas(w, h)
    IN [ w |-> c.w, h |-> c.h, src |-> SourceRect(g.canvas, w, h),
         frame |-> sceneFrame, rot |-> rotationY ]

NoRaster == [ w |-> 0, h |-> 0, src |-> [x |-> 0, y |-> 0, w |-> 0, h |-> 0],
              frame |-> 0, rot |-> 0 ]

\* renderFrame from its call to its first suspension point: snapshot, capture
\* setup, render, draw, toDataURL, then await verifyImageDimensions; when the
\* 2D context is missing it throws and the finally block runs at once
RenderFrameCall(caller) ==
    /\ rfPc = "idle"
    /\ rfCaller' = caller
    /\ rfPre' = gfx
    /\ rfSnap' = Snapshot(gfx)
    /\ \E ctx \in BOOLEAN :
          IF ctx
          THEN /\ gfx' = CaptureSetup(gfx, width, height)
               /\ rfResult' = DataURL(CaptureSetup(gfx, width, height), width, height)
               /\ rfPc' = "awaitVerify"
          ELSE /\ gfx' = Restore(CaptureSetup(gfx, width, height), Snapshot(gfx))
               /\ rfResult' = NoRaster
               /\ rfPc' = "threw"

\* the longest side of a canvas the browser still encodes; toDataURL of a
\* larger canvas gives "data:,", which no Image decodes
CanvasLimit == MaxDim + 1

\* whether the Image of verifyImageDimensions fires its load event for the
\* data URL; otherwise it fires the error event, for which no handler is set
ImageLoads(raster) == raster.w <= CanvasLimit /\ raster.h <= CanvasLimit

\* img.onload of verifyImageDimensions: the await resumes, renderFrame
\* returns the data URL and its finally block restores the state; the
\* promise has no other way to settle
RenderFrameResume ==
    /\ rfPc = "awaitVerify"
    /\ ImageLoads(rfResult)
    /\ gfx' = Restore(gfx, rfSnap)
    /\ rfPc' = "returned"
    /\ UNCHANGED << rfCaller, rfSnap, rfPre, rfResult >>
    /\ UNCHANGED << settingsVars, efPc, plPc, seqVars, sheetVars, handleVars,
                    worldVars, histVars >>

\* another callback runs while renderFrame is suspended: the orbit controls
\* move the camera
OrbitMove ==
    /\ rfPc = "awaitVerify"
    /\ gfx.camPos = rfPre.camPos
    /\ gfx' = [gfx EXCEPT !.camPos = gfx.camPos + 1]
    /\ UNCHANGED << rfPc, rfCaller, rfSnap, rfPre, rfResult >>
    /\ UNCHANGED << settingsVars, efPc, plPc, seqVars, sheetVars, handleVars,
                    worldVars, histVars >>

\* another callback runs while renderFrame is suspended: the viewport is
\* resized (here: turned by a quarter), the renderer follows
ViewportResize ==
    /\ rfPc = "awaitVerify"
    /\ gfx.size.w # gfx.size.h
    /\ gfx' = RendererSetSize(gfx, gfx.size.h, gfx.size.w)
    /\ UNCHANGED << rfPc, rfCaller, rfSnap, rfPre, rfResult >>
    /\ UNCHANGED << settingsVars, efPc, plPc, seqVars, sheetVars, handleVars,
                    worldVars, histVars >>

----------------------------------------------------------------------------
(* exportFrame *)

\* exportFrame up to its await of renderFrame
ExportFrameCall ==
    /\ efPc # "awaitRender"
    /\ rfPc = "idle"
    /\ IF sceneAvail
       THEN /\ RenderFrameCall("exportFrame")
            /\ efPc' = "awaitRender"
       ELSE /\ efPc' = "noScene"
            /\ UNCHANGED captureVars
    /\ UNCHANGED << settingsVars, plPc, seqVars, sheetVars, handleVars,
                    worldVars, histVars >>

\* exportFrame after renderFrame settled: download link, or the error toast
ExportFrameResume ==
    /\ efPc = "awaitRender"
    /\ rfCaller = "exportFrame"
    /\ rfPc \in {"returned", "threw"}
    /\ efPc' = IF rfPc = "returned" THEN "downloaded" ELSE "failed"
    /\ rfPc' = "idle"
    /\ UNCHANGED << gfx, rfCaller, rfSnap, rfPre, rfResult >>
    /\ UNCHANGED << settingsVars, plPc, seqVars, sheetVars, handleVars,
                    worldVars, histVars >>

----------------------------------------------------------------------------
(* exportSequence: which frames to render *)

\* Math.max(1, Math.floor(totalFrames / renderSteps)); totalFrames / 0 is
\* Infinity for totalFrames > 0, and adding Infinity to the loop index ends
\* the loop after its first pass, as a step of totalFrames does
SampleStep(T, R) == IF R = 0 THEN Max(1, T) ELSE Max(1, T \div R)

\* for (let i = from; i < T; i += step) framesToRender.push(i)
RECURSIVE PushFrom(_, _, _)
PushFrom(i, T, step) ==
    IF i < T THEN <<i>> \o PushFrom(i + step, T, step) ELSE <<>>

ForceLastNever(indices, T) == indices

\* if (framesToRender[framesToRender.length - 1] !== totalFrames - 1) push(totalFrames - 1);
\* the last element of an empty array is undefined, which differs from every number
ForceLast(indices, T) ==
    IF Len(indices) = 0 \/ indices[Len(indices)] # T - 1
    THEN indices \o <<T - 1>>
    ELSE indices

\* the two branches on renderSteps
Sampled(T, R) ==
    IF R = 1 \/ R >= T
    THEN PushFrom(0, T, 1)
    ELSE PushFrom(0, T, SampleStep(T, R))

PlanFrames(T, R) == ForceLast(Sampled(T, R), T)

----------------------------------------------------------------------------
(* exportSpriteSheet: the grid *)

\* Math.ceil(Math.sqrt(n)): the least c with c * c >= n
RECURSIVE CeilSqrtFrom(_, _)
CeilSqrtFrom(c, n) == IF c * c >= n THEN c ELSE CeilSqrtFrom(c + 1, n)

CeilSqrt(n) == CeilSqrtFrom(0, n)

\* Math.ceil(a / b) for a >= 0, b > 0
CeilDiv(a, b) == (a + b - 1) \div b

SpriteSheetLayoutFloorRows(n, w, h) ==
    LET columns == CeilSqrt(n)
        rows == n \div columns
    IN [ frameCount |-> n, columns |-> columns, rows |-> rows,
         canvasW |-> w * columns, canvasH |-> h * rows ]

\* frameCount, columns, rows and the sheet canvas
SpriteSheetLayout(n, w, h) ==
    LET columns == CeilSqrt(n)
        rows == CeilDiv(n, columns)
    IN [ frameCount |-> n, columns |-> columns, rows |-> rows,
         canvasW |-> w * columns, canvasH |-> h * rows ]

NoSheet == [ frameCount |-> 0, columns |-> 0, rows |-> 0, canvasW |-> 0, canvasH |-> 0 ]

\* position of cell i in the grid
CellOf(i, columns) == [col |-> i % columns, row |-> i \div columns]

----------------------------------------------------------------------------
(* Names and paths *)

HostileChars == {"<", ">", ":", "\"", "|", "?", "*", "/", "\\"}

SanitizeFirstOnly(name) ==
    [i \in DOMAIN name |->
        IF name[i] \in HostileChars /\ \A j \in 1..(i - 1) : name[j] \notin HostileChars
        THEN "_" ELSE name[i]]

\* name.replace(/[<>:"|?*\/\\]/g, '_') on a name given as its characters
Sanitize(name) == [i \in DOMAIN name |-> IF name[i] \in HostileChars THEN "_" ELSE name[i]]

DigitChars == <<"0", "1", "2", "3", "4", "5", "6", "7", "8", "9">>

RECURSIVE Digits(_)
Digits(n) == IF n < 10 THEN <<DigitChars[n + 1]>>
             ELSE Digits(n \div 10) \o <<DigitChars[(n % 10) + 1]>>

\* Number.prototype.toString
NumberToString(i) == IF i < 0 THEN <<"-">> \o Digits(-i) ELSE Digits(i)

\* String.prototype.padStart(4, '0')
RECURSIVE PadStart4(_)
PadStart4(s) == IF Len(s) >= 4 THEN s ELSE PadStart4(<<"0">> \o s)

FramePathUnpadded(root, animation, frameIndex) ==
    [ root |-> root, sub |-> Sanitize(animation), kind |-> "frame",
      stem |-> NumberToString(frameIndex), columns |-> 0, rows |-> 0 ]

\* `${outputFolder}/${sanitizedAnimationName}` + `/frame_${paddedIndex}.png`
FramePath(root, animation, frameIndex) ==
    [ root |-> root, sub |-> Sanitize(animation), kind |-> "frame",
      stem |-> PadStart4(NumberToString(frameIndex)), columns |-> 0, rows |-> 0 ]

\* `${outputFolder}/${sanitizedAnimationName}_spritesheet_${columns}x${rows}.png`:
\* a file of the output root itself (sub is empty)
SheetPath(root, animation, columns, rows) ==
    [ root |-> root, sub |-> <<>>, kind |-> "spritesheet",
      stem |-> Sanitize(animation), columns |-> columns, rows |-> rows ]

\* the bridge wrote data at path, replacing what was there
WriteFile(files, path, data) ==
    {f \in files : f.path # path} \cup {[path |-> path, data |-> data]}

----------------------------------------------------------------------------
(* useSafeModelCalibration: rotateToAngle; angles are in units of pi/4 *)

AngleKeys == {"face", "dos", "profil_droit", "profil_gauche",
              "trois_quart_droite", "trois_quart_gauche"}

AngleOffsetProfilesSwapped(name) ==
    CASE name = "face" -> 0
      [] name = "dos" -> 4
      [] name = "profil_droit" -> -2
      [] name = "profil_gauche" -> 2
      [] name = "trois_quart_droite" -> 1
      [] name = "trois_quart_gauche" -> -1

\* the offsets of the angles table
AngleOffset(name) ==
    CASE name = "face" -> 0
      [] name = "dos" -> 4
      [] name = "profil_droit" -> 2
      [] name = "profil_gauche" -> -2
      [] name = "trois_quart_droite" -> 1
      [] name = "trois_quart_gauche" -> -1

RotateToAngleNoFrontFaceCheck(cal, angleName, rot) ==
    IF cal = <<>> THEN rot
    ELSE IF angleName \notin AngleKeys THEN rot
    ELSE IF ~(sceneAvail /\ hasContainer) THEN rot
    ELSE cal[1].frontFaceRotation + AngleOffset(angleName)

\* container.rotation.y after rotateToAngle(angleName), rot being its value before
RotateToAngle(cal, angleName, rot) ==
    IF cal = <<>> \/ ~cal[1].isFrontFaceSet THEN rot
    ELSE IF angleName \notin AngleKeys THEN rot
    ELSE IF ~(sceneAvail /\ hasContainer) THEN rot
    ELSE cal[1].frontFaceRotation + AngleOffset(angleName)

----------------------------------------------------------------------------
(* useSafeModelCalibration: analyzeModel and applyCalibration *)

\* Infinity and -Infinity, as THREE.Box3 holds them for an empty box
PosInf == [n |-> 1, d |-> 0]
NegInf == [n |-> -1, d |-> 0]

\* the value null of a parsed JSON text, kept in the shape of a number
JsonNull == [n |-> 0, d |-> -1]

IsFinite(x) == x.d > 0

RLess(a, b) == a.n * b.d < b.n * a.d

\* Math.min and Math.max on finite numbers
MathMin(a, b) == IF RLess(b, a) THEN b ELSE a
MathMax(a, b) == IF RLess(a, b) THEN b ELSE a

\* a / b for finite a and finite b > 0
RDiv(a, b) == Rat(a.n * b.d, a.d * b.n)

\* -a * b for finite b > 0; a may be Infinity
NegTimes(a, b) == IF a = PosInf THEN NegInf
                  ELSE IF a = NegInf THEN PosInf
                  ELSE Rat(-(a.n * b.n), a.d * b.d)

\* new THREE.Box3().setFromObject(scene) with getSize(size): the box of a
\* scene without geometry is empty, its min is +Infinity and its size is 0
Box(minY, sizeX, sizeY, sizeZ) ==
    [min |-> [y |-> minY], size |-> [x |-> sizeX, y |-> sizeY, z |-> sizeZ]]

EmptyBox == Box(PosInf, RInt(0), RInt(0), RInt(0))

\* a loaded model: whether it has a scene root, and the box of that scene
Model(scene, box) == [scene |-> scene, box |-> box]

\* lines 28-34: the scale from the bounding height
NormalizedScaleUnclamped(originalHeight) ==
    IF RLess(RInt(0), originalHeight) THEN RDiv(Rat(3, 2), originalHeight) ELSE RInt(1)

NormalizedScaleNoCeiling(originalHeight) ==
    MathMax(NormalizedScaleUnclamped(originalHeight), Rat(1, 2))

NormalizedScale(originalHeight) ==
    MathMax(MathMin(NormalizedScaleUnclamped(originalHeight), RInt(20)), Rat(1, 2))

AnalyzeModelOffsetUnscaled(m) ==
    IF m = <<>> \/ ~m[1].scene THEN <<>>
    ELSE << [ originalScale |-> RInt(1),
              normalizedScale |-> NormalizedScale(m[1].box.size.y),
              groundOffset |-> NegTimes(m[1].box.min.y, RInt(1)),
              frontFaceRotation |-> 0,
              isFrontFaceSet |-> FALSE,
              originalSize |-> [ width |-> m[1].box.size.x, height |-> m[1].box.size.y,
                                 depth |-> m[1].box.size.z ],
              targetHeight |-> Rat(3, 2) ] >>

\* analyzeModel(model): null (<<>>) without a scene root, else the new calibration
AnalyzeModel(m) ==
    IF m = <<>> \/ ~m[1].scene THEN <<>>
    ELSE << [ originalScale |-> RInt(1),
              normalizedScale |-> NormalizedScale(m[1].box.size.y),
              groundOffset |-> NegTimes(m[1].box.min.y, NormalizedScale(m[1].box.size.y)),
              frontFaceRotation |-> 0,
              isFrontFaceSet |-> FALSE,
              originalSize |-> [ width |-> m[1].box.size.x, height |-> m[1].box.size.y,
                                 depth |-> m[1].box.size.z ],
              targetHeight |-> Rat(3, 2) ] >>

\* whether applyCalibration finds the scene and the "importedModel" container
ContainerFound == sceneAvail /\ hasContainer

\* applyCalibration(newCalibration): on the container found it sets scale,
\* y position and, with a front face set, y rotation, then setCalibration;
\* otherwise it returns false before any of that
ApplyCalibration(newCalibration) ==
    IF ContainerFound
    THEN /\ containerScale' = newCalibration.normalizedScale
         /\ containerY' = newCalibration.groundOffset
         /\ rotationY' = IF newCalibration.isFrontFaceSet
                         THEN newCalibration.frontFaceRotation
                         ELSE rotationY
         /\ calibration' = <<newCalibration>>
    ELSE UNCHANGED << containerScale, containerY, rotationY, calibration >>

----------------------------------------------------------------------------
(* useSafeModelCalibration: the operations of the hook *)

ProfileNames == {"hero", "mob"}

\* a name outside the angles table
UnknownAngle == "plongee"

\* JSON.stringify then JSON.parse of a number: a number that is not finite
\* is written as null
JsonNumber(x) == IF IsFinite(x) THEN x ELSE JsonNull

\* JSON.stringify then JSON.parse of a calibration
JsonCalibration(c) ==
    [ originalScale |-> JsonNumber(c.originalScale),
      normalizedScale |-> JsonNumber(c.normalizedScale),
      groundOffset |-> JsonNumber(c.groundOffset),
      frontFaceRotation |-> c.frontFaceRotation,
      isFrontFaceSet |-> c.isFrontFaceSet,
      originalSize |-> [ width |-> JsonNumber(c.originalSize.width),
                         height |-> JsonNumber(c.originalSize.height),
                         depth |-> JsonNumber(c.originalSize.depth) ],
      targetHeight |-> JsonNumber(c.targetHeight) ]

\* the entry of a profile as it comes back from the store; its timestamp is
\* read by no operation and is left out
ProfileEntry(c) == [calibration |-> JsonCalibration(c), version |-> "1.0"]

\* manualCalibrate(model): without a model it returns, else it sets
\* isCalibrating and starts the 100 ms timer
ManualCalibrate ==
    /\ calOp' = "manualCalibrate"
    /\ calArg' = ""
    /\ calTimers < MaxCalTimers
    /\ IF model = <<>>
       THEN UNCHANGED << isCalibrating, calTimers >>
       ELSE /\ isCalibrating' = TRUE
            /\ calTimers' = calTimers + 1
    /\ calReturn' = "undefined"
    /\ UNCHANGED << panelVars, pageVars, calibration, model, containerScale, containerY, profiles >>
    /\ UNCHANGED << captureVars, efPc, plPc, seqVars, sheetVars, handleVars, worldVars, histVars >>

\* the timer of manualCalibrate fired: analyzeModel, applyCalibration on a
\* calibration that is not null, setIsCalibrating(false)
ManualCalibrateTimer ==
    /\ calOp' = "manualCalibrate timer"
    /\ calArg' = ""
    /\ calTimers > 0
    /\ calTimers' = calTimers - 1
    /\ isCalibrating' = FALSE
    /\ IF AnalyzeModel(model) = <<>>
       THEN /\ UNCHANGED << containerScale, containerY, rotationY, calibration >>
            /\ calReturn' = "null"
       ELSE /\ ApplyCalibration(AnalyzeModel(model)[1])
            /\ calReturn' = IF ContainerFound THEN "true" ELSE "false"
    /\ UNCHANGED << panelVars, pageVars, model, profiles >>
    /\ UNCHANGED << captureVars, efPc, plPc, seqVars, sheetVars, handleVars,
                    sceneFrame, fsDirs, fsFiles, toasts, histVars >>

SetFrontFaceTurnsBack ==
    /\ calOp' = "setFrontFace"
    /\ calArg' = ""
    /\ Abs(rotationY) <= MaxFrontFace
    /\ calibration' = IF calibration # <<>> /\ ContainerFound
                      THEN << [calibration[1] EXCEPT !.frontFaceRotation = 0,
                                                    !.isFrontFaceSet = TRUE] >>
                      ELSE calibration
    /\ calReturn' = "undefined"
    /\ UNCHANGED << panelVars, pageVars, hookVarsButReturn >>
    /\ UNCHANGED << captureVars, efPc, plPc, seqVars, sheetVars, handleVars, worldVars, histVars >>

\* setFrontFace(): with a calibration and the container found, the
\* container's current rotation becomes the front face
SetFrontFace ==
    /\ calOp' = "setFrontFace"
    /\ calArg' = ""
    /\ Abs(rotationY) <= MaxFrontFace
    /\ calibration' = IF calibration # <<>> /\ ContainerFound
                      THEN << [calibration[1] EXCEPT !.frontFaceRotation = rotationY,
                                                    !.isFrontFaceSet = TRUE] >>
                      ELSE calibration
    /\ calReturn' = "undefined"
    /\ UNCHANGED << panelVars, pageVars, hookVarsButReturn >>
    /\ UNCHANGED << captureVars, efPc, plPc, seqVars, sheetVars, handleVars, worldVars, histVars >>

\* rotateToAngle(angleName) called from a panel
RotateToAngleCall ==
    /\ calOp' = "rotateToAngle"
    /\ \E angleName \in AngleKeys \cup {UnknownAngle} :
          /\ calArg' = angleName
          /\ rotationY' = RotateToAngle(calibration, angleName, rotationY)
    /\ calReturn' = "undefined"
    /\ UNCHANGED << panelVars, pageVars, calibration, hookVarsButReturn >>
    /\ UNCHANGED << captureVars, efPc, plPc, seqVars, sheetVars, handleVars,
                    sceneFrame, fsDirs, fsFiles, toasts, histVars >>

\* saveProfile(name): without a calibration it returns undefined; else the
\* store is read, the entry of name is set and the store is written back;
\* when localStorage throws it returns false
SaveProfile(name) ==
    /\ calOp' = "saveProfile"
    /\ calArg' = name
    /\ IF calibration = <<>>
       THEN /\ profiles' = profiles
            /\ calReturn' = "undefined"
       ELSE \E stored \in BOOLEAN :
               IF stored
               THEN /\ profiles' = [profiles EXCEPT ![name] = << ProfileEntry(calibration[1]) >>]
                    /\ calReturn' = "true"
               ELSE /\ profiles' = profiles
                    /\ calReturn' = "false"
    /\ UNCHANGED << panelVars, pageVars, calibration, model, isCalibrating, calTimers,
                    containerScale, containerY >>
    /\ UNCHANGED << captureVars, efPc, plPc, seqVars, sheetVars, handleVars, worldVars, histVars >>

\* loadProfile(name): the entry of name is applied; false when there is no
\* such entry or when applying fails
LoadProfile(name) ==
    /\ calOp' = "loadProfile"
    /\ calArg' = name
    /\ IF profiles[name] = <<>>
       THEN /\ UNCHANGED << containerScale, containerY, rotationY, calibration >>
            /\ calReturn' = "false"
       ELSE /\ ApplyCalibration(profiles[name][1].calibration)
            /\ calReturn' = IF ContainerFound THEN "true" ELSE "false"
    /\ UNCHANGED << panelVars, pageVars, model, isCalibrating, calTimers, profiles >>
    /\ UNCHANGED << captureVars, efPc, plPc, seqVars, sheetVars, handleVars,
                    sceneFrame, fsDirs, fsFiles, toasts, histVars >>

\* reset()
ResetCalibration ==
    /\ calOp' = "reset"
    /\ calArg' = ""
    /\ calibration' = <<>>
    /\ isCalibrating' = FALSE
    /\ calReturn' = "undefined"
    /\ UNCHANGED << panelVars, pageVars, model, calTimers, containerScale, containerY, profiles >>
    /\ UNCHANGED << captureVars, efPc, plPc, seqVars, sheetVars, handleVars, worldVars, histVars >>

\* the user turns the model in the viewport
UserRotate ==
    /\ ContainerFound
    /\ \E r \in (-MaxFrontFace)..MaxFrontFace : rotationY' = r
    /\ rotationY' # rotationY
    /\ calOp' = "user" /\ calArg' = "" /\ calReturn' = "undefined"
    /\ UNCHANGED << panelVars, pageVars, calibration, hookVarsButReturn, captureVars, efPc, plPc, seqVars, sheetVars, handleVars,
                    sceneFrame, fsDirs, fsFiles, toasts, histVars >>

----------------------------------------------------------------------------
(* Toasts and file contents *)

NoPath == [ root |-> "", sub |-> <<>>, kind |-> "", stem |-> <<>>,
            columns |-> 0, rows |-> 0 ]

DirPath(root, animation) ==
    [ root |-> root, sub |-> Sanitize(animation), kind |-> "dir", stem |-> <<>>,
      columns |-> 0, rows |-> 0 ]

Toast(title, message, path) == [title |-> title, message |-> message, path |-> path]

\* the toast of exportSequence's catch block for the error thrown with message and path
SequenceError(message, path) == Toast("Error", message, path)

\* what the 'frame-change' listener of the animation layer makes the scene show
SeekTo(frameIndex) == frameIndex

\* a PNG file holding one captured frame
FrameFile(raster) == [w |-> raster.w, h |-> raster.h, cells |-> <<raster>>]

\* the sprite sheet canvas as a PNG file
SheetFile(layout, cells) == [w |-> layout.canvasW, h |-> layout.canvasH, cells |-> cells]

hasElectronAPI == "electron" \in apis
hasElectronAPIFallback == "electronAPI" \in apis

\* one step of exportSequence's frame loop, for the frame index it is about
SeqStep(ev, frameIndex) == [ev |-> ev, frame |-> frameIndex]

ExportEnd == [ev |-> "exportEnd", angle |-> ""]
ExportStart == [ev |-> "exportStart", angle |-> ""]

----------------------------------------------------------------------------
(* exportSequence *)

ExportSequenceCallNoSceneCheck ==
    /\ UNCHANGED << sI, framesToRender >>
    /\ seqLog' = <<>>
    /\ IF outputFolder = ""
       THEN /\ toasts' = Append(toasts, Toast("Error", "Please select an output folder first", NoPath))
            /\ sPc' = "done"
            /\ seqInFlight' = seqInFlight
            /\ batchLog' = batchLog \o << ExportStart, ExportEnd >>
       ELSE IF currentAnimation = <<>>
       THEN /\ toasts' = Append(toasts, Toast("Error", "No animation selected", NoPath))
            /\ sPc' = "done"
            /\ seqInFlight' = seqInFlight
            /\ batchLog' = batchLog \o << ExportStart, ExportEnd >>
       ELSE IF ~hasElectronAPI /\ ~hasElectronAPIFallback
       THEN /\ toasts' = Append(toasts, Toast("Error", "File system access is not available", NoPath))
            /\ sPc' = "done"
            /\ seqInFlight' = seqInFlight
            /\ batchLog' = batchLog \o << ExportStart, ExportEnd >>
       ELSE /\ toasts' = toasts
            /\ sPc' = IF hasElectronAPI THEN "awaitMkdir1" ELSE "awaitMkdir2"
            /\ seqInFlight' = seqInFlight + 1
            /\ batchLog' = Append(batchLog, ExportStart)

\* exportSequence from its call to its first await, or to its early return
ExportSequenceCall ==
    /\ UNCHANGED << sI, framesToRender >>
    /\ seqLog' = <<>>
    /\ IF outputFolder = ""
       THEN /\ toasts' = Append(toasts, Toast("Error", "Please select an output folder first", NoPath))
            /\ sPc' = "done"
            /\ seqInFlight' = seqInFlight
            /\ batchLog' = batchLog \o << ExportStart, ExportEnd >>
       ELSE IF currentAnimation = <<>>
       THEN /\ toasts' = Append(toasts, Toast("Error", "No animation selected", NoPath))
            /\ sPc' = "done"
            /\ seqInFlight' = seqInFlight
            /\ batchLog' = batchLog \o << ExportStart, ExportEnd >>
       ELSE IF ~hasElectronAPI /\ ~hasElectronAPIFallback
       THEN /\ toasts' = Append(toasts, Toast("Error", "File system access is not available", NoPath))
            /\ sPc' = "done"
            /\ seqInFlight' = seqInFlight
            /\ batchLog' = batchLog \o << ExportStart, ExportEnd >>
       ELSE IF ~sceneAvail
       THEN /\ toasts' = Append(toasts, Toast("Error", "Could not access the 3D scene", NoPath))
            /\ sPc' = "done"
            /\ seqInFlight' = seqInFlight
            /\ batchLog' = batchLog \o << ExportStart, ExportEnd >>
       ELSE /\ toasts' = toasts
            /\ sPc' = IF hasElectronAPI THEN "awaitMkdir1" ELSE "awaitMkdir2"
            /\ seqInFlight' = seqInFlight + 1
            /\ batchLog' = Append(batchLog, ExportStart)

\* exportSequence's catch block: the error toast, and the promise resolves
SequenceCatch(message, path) ==
    /\ toasts' = Append(toasts, SequenceError(message, path))
    /\ sPc' = "done"
    /\ seqInFlight' = seqInFlight - 1
    /\ batchLog' = Append(batchLog, ExportEnd)
    /\ seqLog' = seqLog

\* exportSequence called on its own, outside a batch
ExportSequenceInvoke ==
    /\ sPc = "idle"
    /\ hPc = "idle"
    /\ ExportSequenceCall
    /\ UNCHANGED << settingsVars, captureVars, efPc, plPc, sheetVars, handleVars,
                    sceneFrame, rotationY, fsDirs, fsFiles >>

\* createDirectory returned: on success the plan is computed and the first
\* frame is sought; on failure the fallback bridge is tried, or the sequence throws
ExportSequenceDirectoryReturned ==
    /\ sPc \in {"awaitMkdir1", "awaitMkdir2"}
    /\ \E directoryCreated \in BOOLEAN :
          IF directoryCreated
          THEN /\ fsDirs' = fsDirs \cup {DirPath(outputFolder, currentAnimation)}
               /\ framesToRender' = PlanFrames(totalFrames, renderSteps)
               /\ sI' = 0
               /\ sceneFrame' = SeekTo(PlanFrames(totalFrames, renderSteps)[1])
               /\ seqLog' = Append(seqLog, SeqStep("seek", PlanFrames(totalFrames, renderSteps)[1]))
               /\ sPc' = "settle"
               /\ UNCHANGED << toasts, seqInFlight, batchLog >>
          ELSE IF sPc = "awaitMkdir1" /\ hasElectronAPIFallback
          THEN /\ sPc' = "awaitMkdir2"
               /\ UNCHANGED << fsDirs, framesToRender, sI, sceneFrame, toasts, histVars >>
          ELSE /\ SequenceCatch("Failed to create directory", DirPath(outputFolder, currentAnimation))
               /\ UNCHANGED << fsDirs, framesToRender, sI, sceneFrame >>
    /\ UNCHANGED << settingsVars, captureVars, efPc, plPc, sheetVars, handleVars,
                    rotationY, fsFiles >>

\* the 50 ms settle timer fired: renderFrame is called and awaited
ExportSequenceSettled ==
    /\ sPc = "settle"
    /\ RenderFrameCall("exportSequence")
    /\ sPc' = "awaitRender"
    /\ seqLog' = Append(seqLog, SeqStep("settled", framesToRender[sI + 1]))
    /\ UNCHANGED << sI, framesToRender >>
    /\ UNCHANGED << settingsVars, efPc, plPc, sheetVars, handleVars, worldVars,
                    seqInFlight, batchLog >>

ExportSequenceRenderedSaveNotAwaited ==
    /\ sPc = "awaitRender"
    /\ rfCaller = "exportSequence"
    /\ rfPc \in {"returned", "threw"}
    /\ rfPc' = "idle"
    /\ IF rfPc = "returned"
       THEN /\ sPc' = IF hasElectronAPI THEN "awaitSave1" ELSE "awaitSave2"
            /\ IF sI + 1 < Len(framesToRender)
               THEN /\ sceneFrame' = SeekTo(framesToRender[sI + 2])
                    /\ seqLog' = seqLog \o << SeqStep("captured", rfResult.frame),
                                               SeqStep("seek", framesToRender[sI + 2]) >>
               ELSE /\ sceneFrame' = sceneFrame
                    /\ seqLog' = Append(seqLog, SeqStep("captured", rfResult.frame))
            /\ UNCHANGED << toasts, seqInFlight, batchLog >>
       ELSE /\ SequenceCatch("Could not get 2D context for export canvas", NoPath)
            /\ sceneFrame' = sceneFrame
    /\ UNCHANGED << sI, framesToRender >>
    /\ UNCHANGED << gfx, rfCaller, rfSnap, rfPre, rfResult >>
    /\ UNCHANGED << settingsVars, efPc, plPc, sheetVars, handleVars,
                    rotationY, fsDirs, fsFiles >>

\* renderFrame settled: the frame is handed to the bridge's save call, or the
\* error goes to the catch block
ExportSequenceRendered ==
    /\ sPc = "awaitRender"
    /\ rfCaller = "exportSequence"
    /\ rfPc \in {"returned", "threw"}
    /\ rfPc' = "idle"
    /\ IF rfPc = "returned"
       THEN /\ sPc' = IF hasElectronAPI THEN "awaitSave1" ELSE "awaitSave2"
            /\ seqLog' = Append(seqLog, SeqStep("captured", rfResult.frame))
            /\ UNCHANGED << toasts, seqInFlight, batchLog >>
       ELSE SequenceCatch("Could not get 2D context for export canvas", NoPath)
    /\ UNCHANGED << sI, framesToRender >>
    /\ UNCHANGED << gfx, rfCaller, rfSnap, rfPre, rfResult >>
    /\ UNCHANGED << settingsVars, efPc, plPc, sheetVars, handleVars,
                    sceneFrame, rotationY, fsDirs, fsFiles >>

\* exportSpriteSheet from its call to its first await: grid, sheet canvas,
\* seek of the first planned frame
ExportSpriteSheetCall ==
    /\ sheet' = SpriteSheetLayout(Len(framesToRender), width, height)
    /\ ssCells' = <<>>
    /\ ssI' = 0
    /\ sceneFrame' = SeekTo(framesToRender[1])
    /\ ssPc' = "settle"

ExportSequenceFileReturnedCarriesOn ==
    /\ sPc \in {"awaitSave1", "awaitSave2"}
    /\ \E fileSaved \in BOOLEAN :
          IF fileSaved \/ ~(sPc = "awaitSave1" /\ hasElectronAPIFallback)
          THEN /\ fsFiles' = IF fileSaved
                             THEN WriteFile(fsFiles,
                                    FramePath(outputFolder, currentAnimation, framesToRender[sI + 1]),
                                    FrameFile(rfResult))
                             ELSE fsFiles
               /\ toasts' = IF fileSaved THEN toasts
                            ELSE Append(toasts, SequenceError("Failed to save file",
                                    FramePath(outputFolder, currentAnimation, framesToRender[sI + 1])))
               /\ IF sI + 1 < Len(framesToRender)
                  THEN /\ sI' = sI + 1
                       /\ sceneFrame' = SeekTo(framesToRender[sI + 2])
                       /\ seqLog' = seqLog \o << SeqStep("written", framesToRender[sI + 1]),
                                                  SeqStep("seek", framesToRender[sI + 2]) >>
                       /\ sPc' = "settle"
                       /\ UNCHANGED sheetVars
                  ELSE /\ sI' = sI + 1
                       /\ seqLog' = Append(seqLog, SeqStep("written", framesToRender[sI + 1]))
                       /\ ExportSpriteSheetCall
                       /\ sPc' = "awaitSheet"
               /\ UNCHANGED << seqInFlight, batchLog >>
          ELSE /\ sPc' = "awaitSave2"
               /\ UNCHANGED << fsFiles, sI, sceneFrame, sheetVars, toasts, histVars >>
    /\ UNCHANGED << settingsVars, captureVars, efPc, plPc, handleVars,
                    framesToRender, rotationY, fsDirs >>

\* saveFile / saveImageFile returned for the frame of the loop: next frame,
\* or the sprite sheet after the last one; on failure the fallback bridge is
\* tried, or the sequence throws
ExportSequenceFileReturned ==
    /\ sPc \in {"awaitSave1", "awaitSave2"}
    /\ \E fileSaved \in BOOLEAN :
          IF fileSaved
          THEN /\ fsFiles' = WriteFile(fsFiles,
                                FramePath(outputFolder, currentAnimation, framesToRender[sI + 1]),
                                FrameFile(rfResult))
               /\ IF sI + 1 < Len(framesToRender)
                  THEN /\ sI' = sI + 1
                       /\ sceneFrame' = SeekTo(framesToRender[sI + 2])
                       /\ seqLog' = seqLog \o << SeqStep("written", framesToRender[sI + 1]),
                                                  SeqStep("seek", framesToRender[sI + 2]) >>
                       /\ sPc' = "settle"
                       /\ UNCHANGED sheetVars
                  ELSE /\ sI' = sI + 1
                       /\ seqLog' = Append(seqLog, SeqStep("written", framesToRender[sI + 1]))
                       /\ ExportSpriteSheetCall
                       /\ sPc' = "awaitSheet"
               /\ UNCHANGED << toasts, seqInFlight, batchLog >>
          ELSE IF sPc = "awaitSave1" /\ hasElectronAPIFallback
          THEN /\ sPc' = "awaitSave2"
               /\ UNCHANGED << fsFiles, sI, sceneFrame, sheetVars, toasts, histVars >>
          ELSE /\ SequenceCatch("Failed to save file",
                                FramePath(outputFolder, currentAnimation, framesToRender[sI + 1]))
               /\ UNCHANGED << fsFiles, sI, sceneFrame, sheetVars >>
    /\ UNCHANGED << settingsVars, captureVars, efPc, plPc, handleVars,
                    framesToRender, rotationY, fsDirs >>

----------------------------------------------------------------------------
(* exportSpriteSheet *)

\* the 50 ms settle timer fired: renderFrame is called and awaited
ExportSpriteSheetSettled ==
    /\ ssPc = "settle"
    /\ RenderFrameCall("exportSpriteSheet")
    /\ ssPc' = "awaitRender"
    /\ UNCHANGED << ssI, ssCells, sheet >>
    /\ UNCHANGED << settingsVars, efPc, plPc, seqVars, handleVars, worldVars, histVars >>

\* renderFrame settled: the frame is loaded into an Image, or the error is
\* rethrown into exportSequence's catch block
ExportSpriteSheetRendered ==
    /\ ssPc = "awaitRender"
    /\ rfCaller = "exportSpriteSheet"
    /\ rfPc \in {"returned", "threw"}
    /\ rfPc' = "idle"
    /\ IF rfPc = "returned"
       THEN /\ ssPc' = "awaitImage"
            /\ UNCHANGED << sPc, toasts, histVars >>
       ELSE /\ ssPc' = "idle"
            /\ SequenceCatch("Could not get 2D context for export canvas", NoPath)
    /\ UNCHANGED << ssI, ssCells, sheet, sI, framesToRender >>
    /\ UNCHANGED << gfx, rfCaller, rfSnap, rfPre, rfResult >>
    /\ UNCHANGED << settingsVars, efPc, plPc, handleVars,
                    sceneFrame, rotationY, fsDirs, fsFiles >>

\* img.onload: the frame is drawn into its cell; then the next frame is
\* sought, or the sheet is handed to the bridge's save call
ExportSpriteSheetImageLoaded ==
    /\ ssPc = "awaitImage"
    /\ ssCells' = Append(ssCells, [ cell |-> CellOf(ssI, sheet.columns),
                                    x |-> CellOf(ssI, sheet.columns).col * width,
                                    y |-> CellOf(ssI, sheet.columns).row * height,
                                    img |-> rfResult ])
    /\ ssI' = ssI + 1
    /\ IF ssI + 1 < Len(framesToRender)
       THEN /\ sceneFrame' = SeekTo(framesToRender[ssI + 2])
            /\ ssPc' = "settle"
       ELSE /\ sceneFrame' = sceneFrame
            /\ ssPc' = IF hasElectronAPI THEN "awaitSave1" ELSE "awaitSave2"
    /\ UNCHANGED << sheet, seqVars >>
    /\ UNCHANGED << settingsVars, captureVars, efPc, plPc, handleVars,
                    rotationY, fsDirs, fsFiles, toasts, histVars >>

\* const filename of exportSpriteSheet
SheetDestination == SheetPath(outputFolder, currentAnimation, sheet.columns, sheet.rows)

\* saveFile / saveImageFile returned for the sheet: exportSpriteSheet returns
\* and exportSequence completes; on failure the fallback bridge is tried, or
\* the error reaches exportSequence's catch block
ExportSpriteSheetFileReturned ==
    /\ ssPc \in {"awaitSave1", "awaitSave2"}
    /\ \E fileSaved \in BOOLEAN :
          IF fileSaved
          THEN /\ fsFiles' = WriteFile(fsFiles, SheetDestination, SheetFile(sheet, ssCells))
               /\ ssPc' = "idle"
               /\ sPc' = "done"
               /\ toasts' = Append(toasts, Toast("Export Complete", "frames + sprite sheet exported to",
                                                 DirPath(outputFolder, currentAnimation)))
               /\ seqInFlight' = seqInFlight - 1
               /\ batchLog' = Append(batchLog, ExportEnd)
               /\ seqLog' = seqLog
          ELSE IF ssPc = "awaitSave1" /\ hasElectronAPIFallback
          THEN /\ ssPc' = "awaitSave2"
               /\ UNCHANGED << fsFiles, sPc, toasts, histVars >>
          ELSE /\ ssPc' = "idle"
               /\ SequenceCatch("Failed to save sprite sheet", SheetDestination)
               /\ UNCHANGED fsFiles
    /\ UNCHANGED << ssI, ssCells, sheet, sI, framesToRender >>
    /\ UNCHANGED << settingsVars, captureVars, efPc, plPc, handleVars,
                    sceneFrame, rotationY, fsDirs >>

----------------------------------------------------------------------------
(* SafeMultiExport: handleExport *)

canExport ==
    /\ calibration # <<>>
    /\ calibration[1].isFrontFaceSet
    /\ outputFolder # ""
    /\ currentAnimation # <<>>
    /\ totalFrames > 0
    /\ Len(selectedAngles) > 0

\* setCurrentAngle(angleKey); onRotateToAngle(angleKey); then the 300 ms delay starts
BatchRotate(angles, i) ==
    /\ currentAngle' = angles[i]
    /\ rotationY' = RotateToAngle(calibration, angles[i], rotationY)
    /\ hPc' = "rotateSettle"

\* click on the export button (disabled while isExporting): the guard, then
\* the first angle's rotation
HandleExportClick ==
    /\ hPc = "idle"
    /\ ~isExporting
    /\ IF ~canExport
       THEN /\ hPc' = "refused"
            /\ UNCHANGED << isExporting, exportProgress, currentAngle, hI, hAngles,
                            rotationY, batchLog >>
       ELSE /\ isExporting' = TRUE
            /\ exportProgress' = RInt(0)
            /\ hAngles' = selectedAngles
            /\ hI' = 0
            /\ BatchRotate(selectedAngles, 1)
            /\ batchLog' = Append(batchLog, [ev |-> "rotate", angle |-> selectedAngles[1]])
    /\ UNCHANGED << settingsVars, captureVars, efPc, plPc, seqVars, sheetVars,
                    sceneFrame, fsDirs, fsFiles, toasts, seqInFlight, seqLog >>

\* the 300 ms delay elapsed: exportSequence is called and awaited
HandleExportRotated ==
    /\ hPc = "rotateSettle"
    /\ hPc' = "awaitSequence"
    /\ ExportSequenceCall
    /\ UNCHANGED << isExporting, exportProgress, currentAngle, hI, hAngles >>
    /\ UNCHANGED << settingsVars, captureVars, efPc, plPc, sheetVars,
                    sceneFrame, rotationY, fsDirs, fsFiles >>

HandleExportSequenceNotAwaited ==
    /\ hPc = "awaitSequence"
    /\ exportProgress' = Rat((hI + 1) * 100, Len(hAngles))
    /\ hPc' = "pause"
    /\ sPc' = sPc
    /\ UNCHANGED << isExporting, currentAngle, hI, hAngles, sI, framesToRender >>
    /\ UNCHANGED << settingsVars, captureVars, efPc, plPc, sheetVars, worldVars, histVars >>

\* the promise of exportSequence settled: progress, then the 200 ms pause starts
HandleExportSequenceSettled ==
    /\ hPc = "awaitSequence"
    /\ sPc = "done"
    /\ sPc' = "idle"
    /\ exportProgress' = Rat((hI + 1) * 100, Len(hAngles))
    /\ hPc' = "pause"
    /\ UNCHANGED << isExporting, currentAngle, hI, hAngles, sI, framesToRender >>
    /\ UNCHANGED << settingsVars, captureVars, efPc, plPc, sheetVars, worldVars, histVars >>

HandleExportPausedNoFinally ==
    /\ hPc = "pause"
    /\ IF hI + 1 < Len(hAngles)
       THEN /\ hI' = hI + 1
            /\ BatchRotate(hAngles, hI + 2)
            /\ batchLog' = Append(batchLog, [ev |-> "rotate", angle |-> hAngles[hI + 2]])
            /\ UNCHANGED << isExporting, exportProgress, toasts >>
       ELSE /\ hI' = hI + 1
            /\ toasts' = Append(toasts, Toast("Export terminé", "angles exportés avec succès", NoPath))
            /\ isExporting' = FALSE
            /\ hPc' = "finished"
            /\ UNCHANGED << exportProgress, currentAngle, rotationY, batchLog >>
    /\ UNCHANGED << hAngles, seqInFlight, seqLog >>
    /\ UNCHANGED << settingsVars, captureVars, efPc, plPc, seqVars, sheetVars,
                    sceneFrame, fsDirs, fsFiles >>

\* the 200 ms pause elapsed: next angle, or the closing toast and the finally block
HandleExportPaused ==
    /\ hPc = "pause"
    /\ IF hI + 1 < Len(hAngles)
       THEN /\ hI' = hI + 1
            /\ BatchRotate(hAngles, hI + 2)
            /\ batchLog' = Append(batchLog, [ev |-> "rotate", angle |-> hAngles[hI + 2]])
            /\ UNCHANGED << isExporting, exportProgress, toasts >>
       ELSE /\ hI' = hI + 1
            /\ toasts' = Append(toasts, Toast("Export terminé", "angles exportés avec succès", NoPath))
            /\ isExporting' = FALSE
            /\ exportProgress' = RInt(0)
            /\ currentAngle' = ""
            /\ hPc' = "finished"
            /\ UNCHANGED << rotationY, batchLog >>
    /\ UNCHANGED << hAngles, seqInFlight, seqLog >>
    /\ UNCHANGED << settingsVars, captureVars, efPc, plPc, seqVars, sheetVars,
                    sceneFrame, fsDirs, fsFiles >>

----------------------------------------------------------------------------
(* Walk-through of the two computations for every totalFrames and renderSteps *)

\* lines 675-693 of exportSequence on the current totalFrames and renderSteps
ComputePlan ==
    /\ plPc = "start"
    /\ framesToRender' = PlanFrames(totalFrames, renderSteps)
    /\ plPc' = "planned"
    /\ UNCHANGED << settingsVars, captureVars, efPc, sPc, sI, sheetVars, handleVars,
                    worldVars, histVars >>

\* lines 493-501 of exportSpriteSheet on the planned frames
ComputeSheet ==
    /\ plPc = "planned"
    /\ sheet' = SpriteSheetLayout(Len(framesToRender), width, height)
    /\ plPc' = "sheet"
    /\ UNCHANGED << settingsVars, captureVars, efPc, seqVars, ssPc, ssI, ssCells,
                    handleVars, worldVars, histVars >>

\* analyzeModel on the model at hand
ComputeCalibration ==
    /\ calOp' = "analyzeModel"
    /\ calArg' = ""
    /\ plPc = "start"
    /\ calibration' = AnalyzeModel(model)
    /\ calReturn' = IF AnalyzeModel(model) = <<>> THEN "null" ELSE "calibration"
    /\ plPc' = "analyzed"
    /\ UNCHANGED << panelVars, pageVars, model, isCalibrating, calTimers, containerScale,
                    containerY, profiles >>
    /\ UNCHANGED << captureVars, efPc, seqVars, sheetVars, handleVars, worldVars, histVars >>

----------------------------------------------------------------------------
(* Initial states *)

MakeGfx(sw, sh, pr, cc, ca, bg, ct, comp) ==
    [ size |-> [w |-> sw, h |-> sh],
      pixelRatio |-> pr,
      canvas |-> [w |-> sw * pr, h |-> sh * pr],
      clearColor |-> cc, clearAlpha |-> ca, background |-> bg,
      camType |-> ct, camPos |-> 0, camRot |-> 0, camZoom |-> 1,
      aspect |-> IF ct = "perspective" THEN Rat(sw, sh) ELSE Undef,
      fov |-> IF ct = "perspective" THEN RInt(50) ELSE Undef,
      near |-> IF ct = "other" THEN Undef ELSE Rat(1, 10),
      far |-> IF ct = "other" THEN Undef ELSE RInt(1000),
      left |-> IF ct = "orthographic" THEN Rat(-sw, 2) ELSE Undef,
      right |-> IF ct = "orthographic" THEN Rat(sw, 2) ELSE Undef,
      top |-> IF ct = "orthographic" THEN Rat(sh, 2) ELSE Undef,
      bottom |-> IF ct = "orthographic" THEN Rat(-sh, 2) ELSE Undef,
      composer |-> comp,
      composerSize |-> IF comp THEN [w |-> sw, h |-> sh] ELSE [w |-> 0, h |-> 0] ]

GfxStates ==
    { MakeGfx(sw, sh, pr, cc, ca, bg, ct, comp) :
        sw \in 2..MaxSurface, sh \in 2..MaxSurface, pr \in 1..MaxPixelRatio,
        cc \in {"black", "grey"}, ca \in {0, 1}, bg \in {"null", "sky"},
        ct \in {"perspective", "orthographic", "other"}, comp \in BOOLEAN }

DefaultGfx == MakeGfx(MaxSurface, 2, MaxPixelRatio, "grey", 1, "sky", "perspective", TRUE)

AnimationName == <<"r", "u", "n", ":", "1">>

\* a model three units high whose lowest point is one unit under the origin
TallModel == << Model(TRUE, Box(RInt(-1), RInt(1), RInt(3), RInt(1))) >>

\* the calibration of TallModel, and the same after setFrontFace at rotation 1
FrontFaceUnset == AnalyzeModel(TallModel)[1]
FrontFaceSet == [FrontFaceUnset EXCEPT !.frontFaceRotation = 1, !.isFrontFaceSet = TRUE]

NoProfiles == [name \in ProfileNames |-> <<>>]

\* useState(12) of the frame editor, in frames per second
DefaultFps == 12

\* the canvas exportAsSpriteSheet has not created yet
NoCanvas == [width |-> 0, height |-> 0, drawn |-> <<>>]

\* the frame editor before any of its operations ran
EditorIdle ==
    /\ frames = <<>> /\ fps = DefaultFps
    /\ editorCurrentFrame = 0 /\ editorIsPlaying = FALSE
    /\ editorAnimationFrameRef = 0 /\ editorLastFrameTimeRef = FALSE
    /\ editorCleanup = FALSE /\ editorStopQueued = FALSE
    /\ isLoading = FALSE /\ imPc = "idle" /\ imI = 0
    /\ imageFiles = <<>> /\ loadedFrames = <<>>
    /\ xsPc = "idle" /\ xsI = 0 /\ xsActive = <<>> /\ xsCanvas = NoCanvas
    /\ downloads = <<>>

\* useAnimation before its model arrived
AnimationIdle ==
    /\ isPlaying = FALSE /\ currentFrame = 0 /\ animations = <<>>
    /\ animationFrameRef = 0 /\ lastFrameTimeRef = FALSE
    /\ animationCleanup = FALSE

\* the frame editor page and the animation hook, untouched
PagesIdle ==
    /\ EditorIdle /\ folder = <<>>
    /\ AnimationIdle
    /\ rafQueue = {}

\* the calibration hook before any of its operations ran
CalibrationIdle ==
    /\ isCalibrating = FALSE
    /\ calTimers = 0
    /\ containerScale = RInt(1)
    /\ containerY = RInt(0)
    /\ calOp = "" /\ calArg = ""
    /\ calReturn = ""

\* the hooks of the page before any of their operations ran
HookIdle == CalibrationIdle /\ PagesIdle

StandardAngles == <<"face", "profil_droit", "profil_gauche", "dos">>
OtherAngles == <<"trois_quart_gauche", "dos", "face", "profil_droit">>

\* the selections tried: the first angles of the standard preset and of another order
AngleLists ==
    { SubSeq(StandardAngles, 1, n) : n \in 0..MaxAngles } \cup
    { SubSeq(OtherAngles, 1, n) : n \in 0..MaxAngles }

CaptureIdle ==
    /\ rfPc = "idle"
    /\ rfCaller = ""
    /\ rfSnap = Snapshot(gfx)
    /\ rfPre = gfx
    /\ rfResult = NoRaster
    /\ efPc = "idle"

PipelineIdle ==
    /\ plPc = "start"
    /\ framesToRender = <<>>
    /\ sheet = NoSheet
    /\ isExporting = FALSE
    /\ exportProgress = RInt(0)
    /\ currentAngle = ""
    /\ hPc = "idle" /\ hI = 0 /\ hAngles = <<>>
    /\ sPc = "idle" /\ sI = 0
    /\ ssPc = "idle" /\ ssI = 0 /\ ssCells = <<>>
    /\ fsDirs = {} /\ fsFiles = {}
    /\ toasts = <<>>
    /\ seqInFlight = 0
    /\ batchLog = <<>>
    /\ seqLog = <<>>
    /\ sceneFrame = 0
    /\ rotationY = 0

\* the batch: every setting of the export panel, a fixed scene
Init ==
    /\ width = 2 /\ height = 1
    /\ gfx = DefaultGfx
    /\ renderSteps \in 0..MaxBatchSteps
    /\ totalFrames \in 0..MaxBatchFrames
    /\ outputFolder \in {"", "out"}
    /\ currentAnimation \in {<<>>, AnimationName}
    /\ calibration \in {<<>>, <<FrontFaceSet>>, <<FrontFaceUnset>>}
    /\ selectedAngles \in AngleLists
    /\ sceneAvail \in BOOLEAN
    /\ hasContainer \in BOOLEAN
    /\ apis \in SUBSET {"electron", "electronAPI"}
    /\ model = <<>>
    /\ profiles = NoProfiles
    /\ HookIdle
    /\ CaptureIdle
    /\ PipelineIdle

Next ==
    \/ HandleExportClick
    \/ HandleExportRotated
    \/ ExportSequenceDirectoryReturned
    \/ ExportSequenceSettled
    \/ RenderFrameResume
    \/ ExportSequenceRendered
    \/ ExportSequenceFileReturned
    \/ ExportSpriteSheetSettled
    \/ ExportSpriteSheetRendered
    \/ ExportSpriteSheetImageLoaded
    \/ ExportSpriteSheetFileReturned
    \/ HandleExportSequenceSettled
    \/ HandleExportPaused

Spec == Init /\ [][Next]_vars

\* the capture alone: exportFrame on every scene, camera and export size
InitCapture ==
    /\ width \in 1..MaxDim /\ height \in 1..MaxDim
    /\ gfx \in GfxStates
    /\ sceneAvail \in BOOLEAN
    /\ renderSteps = 1
    /\ totalFrames = 0
    /\ outputFolder = ""
    /\ currentAnimation = <<>>
    /\ calibration = <<>>
    /\ selectedAngles = StandardAngles
    /\ hasContainer = FALSE
    /\ apis = {}
    /\ model = <<>>
    /\ profiles = NoProfiles
    /\ HookIdle
    /\ CaptureIdle
    /\ PipelineIdle

NextCapture ==
    \/ ExportFrameCall
    \/ RenderFrameResume
    \/ OrbitMove
    \/ ViewportResize
    \/ ExportFrameResume

SpecCapture == InitCapture /\ [][NextCapture]_vars

\* the two computations alone, on every totalFrames and renderSteps
InitPlan ==
    /\ width \in 1..MaxDim /\ height \in 1..MaxDim
    /\ gfx = DefaultGfx
    /\ \E case \in ((0..MaxTotalFrames) \X ((-MaxNegSteps)..MaxRenderSteps)) \cup {<<100, 10>>} :
          /\ totalFrames = case[1]
          /\ renderSteps = case[2]
    /\ sceneAvail = TRUE
    /\ outputFolder = ""
    /\ currentAnimation = <<>>
    /\ calibration = <<>>
    /\ selectedAngles = StandardAngles
    /\ hasContainer = FALSE
    /\ apis = {}
    /\ model = <<>>
    /\ profiles = NoProfiles
    /\ HookIdle
    /\ CaptureIdle
    /\ PipelineIdle

NextPlan == ComputePlan \/ ComputeSheet

SpecPlan == InitPlan /\ [][NextPlan]_vars

\* one exportSequence call on its own, on every setting and bridge
InitSequence ==
    /\ width = 2 /\ height = 1
    /\ gfx = DefaultGfx
    /\ renderSteps \in 0..MaxBatchSteps
    /\ totalFrames \in 0..MaxBatchFrames
    /\ outputFolder \in {"", "out"}
    /\ currentAnimation \in {<<>>, AnimationName}
    /\ calibration = <<>>
    /\ selectedAngles = StandardAngles
    /\ sceneAvail \in BOOLEAN
    /\ hasContainer = FALSE
    /\ apis \in SUBSET {"electron", "electronAPI"}
    /\ model = <<>>
    /\ profiles = NoProfiles
    /\ HookIdle
    /\ CaptureIdle
    /\ PipelineIdle

NextSequence ==
    \/ ExportSequenceInvoke
    \/ ExportSequenceDirectoryReturned
    \/ ExportSequenceSettled
    \/ RenderFrameResume
    \/ ExportSequenceRendered
    \/ ExportSequenceFileReturned
    \/ ExportSpriteSheetSettled
    \/ ExportSpriteSheetRendered
    \/ ExportSpriteSheetImageLoaded
    \/ ExportSpriteSheetFileReturned

SpecSequence == InitSequence /\ [][NextSequence]_vars

\* bounding heights and lowest points tried on analyzeModel
Heights == {Rat(n, d) : n \in 0..MaxHeightNum, d \in {1, 2, 20, 40}}
LowestPoints == {Rat(k, 2) : k \in (-MaxLowestPoint)..MaxLowestPoint}

AnalyzeModels ==
    {<<>>, << Model(FALSE, EmptyBox) >>, << Model(TRUE, EmptyBox) >>} \cup
    { << Model(TRUE, Box(minY, RInt(1), sizeY, RInt(2))) >> :
        minY \in LowestPoints, sizeY \in Heights }

\* analyzeModel alone, on every model
InitAnalyze ==
    /\ width = 2 /\ height = 1
    /\ gfx = DefaultGfx
    /\ renderSteps = 1
    /\ totalFrames = 0
    /\ outputFolder = ""
    /\ currentAnimation = <<>>
    /\ calibration = <<>>
    /\ selectedAngles = StandardAngles
    /\ sceneAvail = TRUE
    /\ hasContainer = TRUE
    /\ apis = {}
    /\ model \in AnalyzeModels
    /\ profiles = NoProfiles
    /\ HookIdle
    /\ CaptureIdle
    /\ PipelineIdle

NextAnalyze == ComputeCalibration

SpecAnalyze == InitAnalyze /\ [][NextAnalyze]_vars

\* a model a twentieth of a unit high that floats half a unit over the origin
TinyModel == << Model(TRUE, Box(Rat(1, 2), RInt(1), Rat(1, 20), RInt(1))) >>

\* the models the page may hold: none, one without a scene root, one
\* without geometry, and two with a bounding box
CalibrationModels ==
    {<<>>, << Model(FALSE, EmptyBox) >>, << Model(TRUE, EmptyBox) >>, TallModel, TinyModel}

\* the calibration hook with the scene in every condition, its store empty
\* or holding a profile of an earlier session
InitHook ==
    /\ width = 2 /\ height = 1
    /\ gfx = DefaultGfx
    /\ renderSteps = 1
    /\ totalFrames = 0
    /\ outputFolder = ""
    /\ currentAnimation = <<>>
    /\ calibration = <<>>
    /\ selectedAngles = StandardAngles
    /\ sceneAvail \in BOOLEAN
    /\ hasContainer \in BOOLEAN
    /\ apis = {}
    /\ model \in CalibrationModels
    /\ profiles \in {NoProfiles,
                      [NoProfiles EXCEPT !["hero"] = << ProfileEntry(FrontFaceSet) >>]}
    /\ HookIdle
    /\ CaptureIdle
    /\ PipelineIdle

\* calibration, front face and preset angles
NextRotate ==
    \/ ManualCalibrate
    \/ ManualCalibrateTimer
    \/ SetFrontFace
    \/ RotateToAngleCall
    \/ ResetCalibration
    \/ UserRotate

SpecRotate == InitHook /\ [][NextRotate]_vars

\* calibration, front face and the profile store
NextProfiles ==
    \/ ManualCalibrate
    \/ ManualCalibrateTimer
    \/ SetFrontFace
    \/ \E name \in ProfileNames : SaveProfile(name)
    \/ \E name \in ProfileNames : LoadProfile(name)
    \/ ResetCalibration
    \/ UserRotate

SpecProfiles == InitHook /\ [][NextProfiles]_vars

\* the scenario of two angles, ten frames, ten render steps
InitScenario ==
    /\ width = 2 /\ height = 1
    /\ gfx = DefaultGfx
    /\ renderSteps = 10
    /\ totalFrames = 10
    /\ outputFolder = "out"
    /\ currentAnimation = AnimationName
    /\ calibration = <<FrontFaceSet>>
    /\ selectedAngles \in {SubSeq(StandardAngles, 1, 2), SubSeq(OtherAngles, 1, 2)}
    /\ sceneAvail = TRUE
    /\ hasContainer = TRUE
    /\ apis = {"electron"}
    /\ model = <<>>
    /\ profiles = NoProfiles
    /\ HookIdle
    /\ CaptureIdle
    /\ PipelineIdle

SpecScenario == InitScenario /\ [][Next]_vars

----------------------------------------------------------------------------
(* Properties *)

\* the renderer, scene and camera fields a capture touches
CaptureState(g) ==
    [ size |-> g.size, pixelRatio |-> g.pixelRatio,
      clearColor |-> g.clearColor, clearAlpha |-> g.clearAlpha,
      background |-> g.background,
      camPos |-> g.camPos, camRot |-> g.camRot, camZoom |-> g.camZoom,
      aspect |-> g.aspect, fov |-> g.fov, near |-> g.near, far |-> g.far,
      left |-> g.left, right |-> g.right, top |-> g.top, bottom |-> g.bottom ]

\* C1: once a renderFrame call has finished, by returning a raster or by
\* throwing, renderer size, pixel ratio, clear colour and alpha, scene
\* background, camera position, rotation, zoom and projection parameters
\* equal the values they had immediately before the call.
C1_StateRestoredAfterCapture ==
    rfPc \in {"returned", "threw"} => CaptureState(gfx) = CaptureState(rfPre)

\* a capture that changed size, pixel ratio, clear colour, background and the
\* orthographic frustum has returned
C1_Witness ==
    /\ rfPc = "returned"
    /\ rfPre.camType = "orthographic"
    /\ rfPre.pixelRatio = 2
    /\ rfPre.background = "sky"
    /\ rfPre.clearAlpha = 1
    /\ rfPre.size # [w |-> width, h |-> height]
    /\ rfPre.size.w * height # width * rfPre.size.h

\* C2: renderFrame never reaches a suspension point while renderer, scene or
\* camera hold capture-time values: whenever it is suspended, the shared
\* state equals what it was before the call.
C2_NoTransientStateAtAwait ==
    rfPc = "awaitVerify" => CaptureState(gfx) = CaptureState(rfPre)

\* C3: the raster renderFrame returns has exactly the requested export
\* width and height, whatever the size and aspect of the render surface.
C3_RasterHasRequestedSize ==
    rfPc = "returned" => rfResult.w = width /\ rfResult.h = height

\* a raster was returned for an export size that is not square and differs
\* from the render surface in size and in aspect
C3_Witness ==
    /\ rfPc = "returned"
    /\ width # height
    /\ rfPre.canvas.w # width
    /\ rfPre.canvas.h # height
    /\ rfPre.canvas.w * height # width * rfPre.canvas.h

\* 0, step, 2*step, ... below T
Multiples(T, step) == [k \in 1..CeilDiv(T, step) |-> (k - 1) * step]

\* C4: for 1 < renderSteps < totalFrames the plan is 0, step, 2*step, ...
\* below totalFrames with step = max(1, floor(totalFrames/renderSteps)),
\* followed by totalFrames-1 when that is not already the last element;
\* totalFrames = 100, renderSteps = 10 gives 0, 10, ..., 90, 99.
C4_SampledPlan ==
    (plPc # "start" /\ 1 < renderSteps /\ renderSteps < totalFrames) =>
        LET step == IF totalFrames \div renderSteps > 1
                    THEN totalFrames \div renderSteps ELSE 1
            base == Multiples(totalFrames, step)
        IN /\ framesToRender =
                 IF base[Len(base)] = totalFrames - 1
                 THEN base ELSE base \o <<totalFrames - 1>>
           /\ framesToRender[Len(framesToRender)] = totalFrames - 1
           /\ (totalFrames = 100 /\ renderSteps = 10) =>
                 framesToRender = <<0, 10, 20, 30, 40, 50, 60, 70, 80, 90, 99>>

\* the plan for totalFrames = 100, renderSteps = 10 has been computed
C4_Witness ==
    /\ plPc = "planned"
    /\ totalFrames = 100
    /\ renderSteps = 10
    /\ Len(framesToRender) = 11

\* C5: for totalFrames >= 1 and renderSteps <= 1 (0 and negative values
\* included) or renderSteps >= totalFrames, the plan is the full list
\* 0..totalFrames-1.
C5_FullPlan ==
    (plPc # "start" /\ totalFrames >= 1
        /\ (renderSteps <= 1 \/ renderSteps >= totalFrames)) =>
        framesToRender = [k \in 1..totalFrames |-> k - 1]

\* C6: for n >= 1 frames the grid has columns = ceil(sqrt(n)) and
\* rows = ceil(n/columns), so columns*rows >= n > columns*(rows-1), and the
\* sheet canvas is (width*columns) by (height*rows).
C6_SheetGrid ==
    plPc = "sheet" =>
        LET n == Len(framesToRender)
            c == sheet.columns
            r == sheet.rows
        IN /\ n >= 1
           /\ sheet.frameCount = n
           /\ c * c >= n /\ (c - 1) * (c - 1) < n
           /\ c * r >= n /\ n > c * (r - 1)
           /\ sheet.canvasW = width * c
           /\ sheet.canvasH = height * r

\* the grid of ten frames, 4 by 3, has been computed
C6_Witness ==
    /\ plPc = "sheet"
    /\ Len(framesToRender) = 10
    /\ sheet.columns = 4
    /\ sheet.rows = 3

HasErrorToast == \E k \in DOMAIN toasts : toasts[k].title = "Error"

\* an export failed on directory creation, on a file write or on a missing scene
HasExportFailure ==
    \E k \in DOMAIN toasts :
        /\ toasts[k].title = "Error"
        /\ toasts[k].message \in {"Failed to create directory", "Failed to save file",
                                  "Failed to save sprite sheet",
                                  "Could not access the 3D scene"}

\* C7: once the export of an angle has failed (directory creation or a file
\* write returned false, or the scene is unavailable), no later angle of the
\* batch is rotated to or exported.
C7_BatchStopsAtFirstFailure ==
    (hPc \in {"rotateSettle", "awaitSequence"} /\ hI > 0
        /\ sPc \in {"idle", "awaitMkdir1", "awaitMkdir2"}) => ~HasExportFailure

\* rotate, exportStart, exportEnd for each angle in turn
RECURSIVE ExpectedLog(_)
ExpectedLog(angles) ==
    IF angles = <<>> THEN <<>>
    ELSE << [ev |-> "rotate", angle |-> Head(angles)], ExportStart, ExportEnd >>
            \o ExpectedLog(Tail(angles))

IsPrefix(s, t) == Len(s) <= Len(t) /\ s = SubSeq(t, 1, Len(s))

\* C8: within a batch the angles are taken in the order of the selection;
\* for each angle the order is rotate, settle delay, exportSequence; the
\* exportSequence of an angle has completed before the next rotation, so at
\* most one exportSequence is in flight.
C8_AnglesInOrderOneAtATime ==
    /\ seqInFlight \in {0, 1}
    /\ IsPrefix(batchLog, ExpectedLog(hAngles))
    /\ hPc = "rotateSettle" =>
          /\ seqInFlight = 0
          /\ sPc = "idle"
          /\ batchLog[Len(batchLog)] = [ev |-> "rotate", angle |-> hAngles[hI + 1]]
          /\ currentAngle = hAngles[hI + 1]
    /\ (batchLog # <<>> /\ batchLog[Len(batchLog)].ev = "rotate") => hPc = "rotateSettle"
    /\ seqInFlight = 1 => hPc = "awaitSequence"

\* a batch of two angles ran to its end
C8_Witness ==
    /\ hPc = "finished"
    /\ Len(hAngles) = 2
    /\ batchLog = ExpectedLog(hAngles)
    /\ fsFiles # {}

LastToastIs(title) == toasts # <<>> /\ toasts[Len(toasts)].title = title

FilesOfKind(kind) == {f \in fsFiles : f.path.kind = kind}

SheetPathInFolder(root, animation, columns, rows) ==
    [ root |-> root, sub |-> Sanitize(animation), kind |-> "spritesheet",
      stem |-> Sanitize(animation), columns |-> columns, rows |-> rows ]

\* C10: after a successful exportSequence the sprite sheet holds exactly the
\* planned frames and is stored in the animation's subdirectory, beside the
\* frame files.
C10_SheetBesideFrames ==
    (sPc = "done" /\ LastToastIs("Export Complete")) =>
        \E f \in fsFiles :
            /\ f.path = SheetPathInFolder(outputFolder, currentAnimation,
                                          sheet.columns, sheet.rows)
            /\ Len(f.data.cells) = Len(framesToRender)

----------------------------------------------------------------------------
(* exportSequence on its own *)

\* C11: a call of exportSequence with no output folder, with no animation or
\* with the scene unavailable returns at once: no bridge call is started, no
\* directory or file appears, no frame is sought, and the renderer, camera
\* and scene are left as they were.
C11_EarlyReturnTouchesNothing ==
    [][ (sPc = "idle" /\ sPc' # "idle"
            /\ (outputFolder = "" \/ currentAnimation = <<>> \/ ~sceneAvail))
        => /\ sPc' = "done"
           /\ seqLog' = <<>>
           /\ UNCHANGED << fsDirs, fsFiles, sceneFrame, rotationY, gfx, rfPc >> ]_vars

C11_Witness ==
    /\ sPc = "done"
    /\ ~sceneAvail /\ outputFolder # "" /\ currentAnimation # <<>> /\ apis # {}
    /\ LastToastIs("Error")
    /\ fsDirs = {} /\ fsFiles = {}

\* the toasts telling that a frame file could not be saved
SaveFailures == {k \in DOMAIN toasts : toasts[k].message = "Failed to save file"}

\* the files of the first n planned frames
FramesWritten(n) ==
    {FramePath(outputFolder, currentAnimation, framesToRender[j]) : j \in 1..n}

\* C12: once saving the file of planned frame k has failed on every bridge,
\* exportSequence is over: the error names the path of that file, the scene
\* still shows frame k, the frame loop took no further step, the files on
\* disk are exactly those of the frames before k, and no sprite sheet exists.
C12_SequenceStopsAtFailedSave ==
    \A t \in SaveFailures :
        /\ sPc = "done" /\ ssPc = "idle" /\ rfPc = "idle"
        /\ toasts[t].title = "Error"
        /\ toasts[t].path = FramePath(outputFolder, currentAnimation, framesToRender[sI + 1])
        /\ sceneFrame = framesToRender[sI + 1]
        /\ seqLog[Len(seqLog)] = SeqStep("captured", framesToRender[sI + 1])
        /\ {f.path : f \in fsFiles} = FramesWritten(sI)
        /\ FilesOfKind("spritesheet") = {}
        /\ sheet = NoSheet

C12_Witness ==
    /\ SaveFailures # {}
    /\ sI >= 1
    /\ sI + 1 < Len(framesToRender)
    /\ Cardinality(fsFiles) = sI

\* the steps of the frame loop over the planned frames, from planned frame i on
RECURSIVE ExpectedSteps(_, _)
ExpectedSteps(indices, i) ==
    IF i > Len(indices) THEN <<>>
    ELSE << SeqStep("seek", indices[i]), SeqStep("settled", indices[i]),
            SeqStep("captured", indices[i]), SeqStep("written", indices[i]) >>
         \o ExpectedSteps(indices, i + 1)

\* C13: within one exportSequence the steps of the planned frames happen in
\* plan order, each frame sought, settled, captured and written, and the
\* write of a frame is complete before the next frame is sought; the files
\* on disk are those of the frames logged as written.
C13_FramesInPlanOrder ==
    sPc \notin {"idle", "awaitMkdir1", "awaitMkdir2"} =>
        /\ IsPrefix(seqLog, ExpectedSteps(framesToRender, 1))
        /\ {f.path : f \in FilesOfKind("frame")} = FramesWritten(Len(seqLog) \div 4)

C13_Witness ==
    /\ sPc = "awaitSheet"
    /\ Len(framesToRender) >= 3
    /\ seqLog = ExpectedSteps(framesToRender, 1)

----------------------------------------------------------------------------
(* The calibration hook *)

FrontFaceIsSet == calibration # <<>> /\ calibration[1].isFrontFaceSet

\* C14: while the calibration is null or has no front face set,
\* rotateToAngle of any name changes neither the rotation of the model
\* container nor the calibration.
C14_RotateNeedsFrontFace ==
    [][ (calOp' = "rotateToAngle" /\ ~FrontFaceIsSet)
        => (rotationY' = rotationY /\ calibration' = calibration) ]_vars

C14_Witness ==
    /\ calOp = "rotateToAngle" /\ calArg = "dos"
    /\ calibration # <<>> /\ ~calibration[1].isFrontFaceSet
    /\ ContainerFound
    /\ rotationY = 1

\* C15: with a front face set and the container found, rotateToAngle(name)
\* sets the rotation to frontFaceRotation plus the offset of name (face 0,
\* dos pi, profil_droit pi/2, profil_gauche -pi/2, trois_quart_droite pi/4,
\* trois_quart_gauche -pi/4, in units of pi/4), whatever the rotation was;
\* for another name it changes nothing; the calibration never changes.
C15_RotateByOffsetTable ==
    [][ (calOp' = "rotateToAngle" /\ FrontFaceIsSet /\ ContainerFound)
        => /\ calibration' = calibration
           /\ rotationY' - calibration[1].frontFaceRotation =
                 CASE calArg' = "face" -> 0
                   [] calArg' = "dos" -> 4
                   [] calArg' = "profil_droit" -> 2
                   [] calArg' = "profil_gauche" -> -2
                   [] calArg' = "trois_quart_droite" -> 1
                   [] calArg' = "trois_quart_gauche" -> -1
                   [] OTHER -> rotationY - calibration[1].frontFaceRotation ]_vars

C15_Witness ==
    /\ calOp = "rotateToAngle" /\ calArg = "profil_gauche"
    /\ FrontFaceIsSet /\ calibration[1].frontFaceRotation = 1
    /\ rotationY = -1

\* C16: whenever there is a calibration, its normalizedScale is a number
\* between 0.5 and 20.
C16_ScaleWithinLimits ==
    calibration # <<>> =>
        /\ calibration[1].normalizedScale.d > 0
        /\ 2 * calibration[1].normalizedScale.n >= calibration[1].normalizedScale.d
        /\ calibration[1].normalizedScale.n <= 20 * calibration[1].normalizedScale.d

C16_Witness ==
    /\ calOp = "loadProfile" /\ calArg = "mob" /\ calReturn = "true"
    /\ model = TinyModel
    /\ calibration # <<>> /\ calibration[1].normalizedScale = RInt(20)

\* 1.5 / h clamped to [0.5, 20], for a bounding height h = n/d > 0
ClampedQuotient(h) ==
    IF 3 * h.d >= 40 * h.n THEN RInt(20)
    ELSE IF 3 * h.d <= h.n THEN Rat(1, 2)
    ELSE Rat(3 * h.d, 2 * h.n)

\* -minY * scale
OffsetFor(minY, scale) ==
    IF minY = PosInf THEN NegInf ELSE Rat(-(minY.n * scale.n), minY.d * scale.d)

\* what analyzeModel returned agrees with scaleAtZero for the bounding height 0
AnalysisAgrees(scaleAtZero) ==
    plPc = "analyzed" =>
        IF model = <<>> \/ ~model[1].scene
        THEN calibration = <<>> /\ calReturn = "null"
        ELSE /\ calibration # <<>>
             /\ calibration[1].normalizedScale =
                    IF model[1].box.size.y.n = 0 THEN scaleAtZero
                    ELSE ClampedQuotient(model[1].box.size.y)
             /\ calibration[1].groundOffset =
                    OffsetFor(model[1].box.min.y, calibration[1].normalizedScale)
             /\ ~calibration[1].isFrontFaceSet

\* C17 as stated: for every model with a scene root and every bounding
\* height, 0 included, analyzeModel returns normalizedScale =
\* clamp(1.5 / height, 0.5, 20), which is 20 for the height 0, groundOffset =
\* -min.y * normalizedScale and isFrontFaceSet = false; without a scene root
\* it returns null.
C17_ScaleIsClampedQuotient == AnalysisAgrees(RInt(20))

\* C17 as amended: the same for every bounding height above 0; for the
\* bounding height 0 the normalizedScale is 1.
C17_ScaleIsClampedQuotientOrOne == AnalysisAgrees(RInt(1))

C17_Witness ==
    /\ plPc = "analyzed"
    /\ model # <<>> /\ model[1].scene
    /\ model[1].box.size.y = RInt(3) /\ model[1].box.min.y = Rat(-1, 2)
    /\ calibration[1].normalizedScale = Rat(1, 2)
    /\ calibration[1].groundOffset = Rat(1, 4)

\* C18: when applyCalibration does not find the scene or the container it
\* returns false, and the calibration of the hook is the new calibration
\* all the same.
C18_FailedApplyStillUpdates ==
    /\ (calOp = "manualCalibrate timer" /\ calReturn = "false")
          => calibration = AnalyzeModel(model)
    /\ (calOp = "loadProfile" /\ calReturn = "false" /\ profiles[calArg] # <<>>)
          => calibration = << profiles[calArg][1].calibration >>

\* C19: once a front face is set, a step of manualCalibrate, rotateToAngle,
\* saveProfile or loadProfile leaves frontFaceRotation and isFrontFaceSet of
\* the calibration as they were.
C19_FrontFaceOnlyBySetFrontFace ==
    [][ (FrontFaceIsSet /\ calOp' \in {"manualCalibrate", "manualCalibrate timer",
                                        "rotateToAngle", "saveProfile", "loadProfile"})
        => /\ calibration' # <<>>
           /\ calibration'[1].isFrontFaceSet
           /\ calibration'[1].frontFaceRotation = calibration[1].frontFaceRotation ]_vars

\* C20: saveProfile(name) that succeeds sets the entry of name and leaves the
\* other entries; loadProfile(name) returns false and leaves the calibration
\* when name has no entry or the container is not found; a successful
\* loadProfile(name) right after a successful saveProfile(name) leaves the
\* calibration equal to the one saved.
C20_ProfileStore ==
    [][ /\ (calOp' = "saveProfile" /\ calReturn' = "true")
              => /\ profiles'[calArg'] # <<>>
                 /\ \A other \in ProfileNames \ {calArg'} : profiles'[other] = profiles[other]
        /\ (calOp' = "loadProfile" /\ (profiles[calArg'] = <<>> \/ ~ContainerFound))
              => (calReturn' = "false" /\ calibration' = calibration)
        /\ (calOp' = "loadProfile" /\ calReturn' = "false")
              => calibration' = calibration
        /\ (calOp = "saveProfile" /\ calReturn = "true"
              /\ calOp' = "loadProfile" /\ calArg' = calArg /\ calReturn' = "true")
              => calibration' = calibration ]_vars

----------------------------------------------------------------------------
(* useFrameEditor.tsx and pages/FrameEditor.tsx: the frame editor.         *)
(* A handler is modelled with the render it causes and the effects of that *)
(* render; a state update made inside an effect waits for a render of its  *)
(* own.                                                                    *)

MaxFrames == 3       \* editor: at most MaxFrames frames are loaded
MaxFrameDim == 2     \* editor: frame widths and heights range over 1..MaxFrameDim
MaxStamp == 1        \* editor: Date.now() ranges over 0..MaxStamp

\* 1000 / fps: milliseconds in a second
MsPerSecond == 1000

\* values of the speed slider (min 1, max 60) the model tries
FpsValues == {DefaultFps, 60}

\* milliseconds between the timestamp of a callback and lastFrameTimeRef
ElapsedTimes == {0, 16, 17, 83, 84}

\* one Frame of the editor
Frame(id, filename, data, enabled, w, h) ==
    [id |-> id, filename |-> filename, data |-> data, enabled |-> enabled,
     width |-> w, height |-> h]

\* frames.filter(f => f.enabled)
getActiveFrames(frs) == SelectSeq(frs, LAMBDA f : f.enabled)

toggleFrameAll(frs, index) ==
    [k \in 1..Len(frs) |-> [frs[k] EXCEPT !.enabled = ~frs[k].enabled]]

\* newFrames[index] = { ...newFrames[index], enabled: !newFrames[index].enabled }
\* index counts from 0
toggleFrame(frs, index) ==
    [frs EXCEPT ![index + 1] = [frs[index + 1] EXCEPT !.enabled = ~frs[index + 1].enabled]]

RafIds(queue) == {cb.id : cb \in queue}

\* requestAnimationFrame hands out an id that nothing else is known by; the
\* browser counts upwards, the model takes the least number not in use
RequestId(queue) ==
    CHOOSE n \in 1..(Cardinality(queue) + 3) :
        /\ n \notin RafIds(queue) \cup {editorAnimationFrameRef, animationFrameRef}
        /\ \A m \in 1..(n - 1) :
              m \in RafIds(queue) \cup {editorAnimationFrameRef, animationFrameRef}

\* a pending callback: updateFrame of one run of a playback effect, with
\* what its closure holds
Callback(id, owner, len, rate) == [id |-> id, owner |-> owner, len |-> len, fps |-> rate]

cancelAnimationFrameNever(queue, id) == queue

cancelAnimationFrame(queue, id) == {cb \in queue : cb.id # id}

\* elapsed >= frameTime, with frameTime = 1000 / fps
FrameTimeReached(elapsed, rate) == elapsed * rate >= MsPerSecond

NextOfNoWrap(prev, len) == prev + 1

\* (prev + 1) % activeFrames.length
NextOf(prev, len) == (prev + 1) % len

\* the playback effect of the editor, run because isPlaying, fps or frames
\* changed: the cleanup of its last run, then its body on the new state;
\* stop tells whether a setIsPlaying(false) of an earlier run still waits
EditorPlaybackEffect(playing, frs, rate, stop) ==
    LET cleaned == editorCleanup /\ editorAnimationFrameRef # 0
        queue1 == IF cleaned THEN cancelAnimationFrame(rafQueue, editorAnimationFrameRef)
                  ELSE rafQueue
        ref1 == IF cleaned THEN 0 ELSE editorAnimationFrameRef
        active == getActiveFrames(frs)
        id == RequestId(queue1)
    IN IF ~playing
       THEN /\ rafQueue' = (IF ref1 # 0 THEN cancelAnimationFrame(queue1, ref1) ELSE queue1)
            /\ editorAnimationFrameRef' = 0
            /\ editorLastFrameTimeRef' = (IF ref1 # 0 THEN FALSE ELSE editorLastFrameTimeRef)
            /\ editorCleanup' = FALSE
            /\ editorStopQueued' = stop
       ELSE IF Len(active) = 0
       THEN /\ rafQueue' = queue1
            /\ editorAnimationFrameRef' = ref1
            /\ editorStopQueued' = TRUE
            /\ editorCleanup' = FALSE
            /\ UNCHANGED editorLastFrameTimeRef
       ELSE /\ rafQueue' = queue1 \cup {Callback(id, "editor", Len(active), rate)}
            /\ editorAnimationFrameRef' = id
            /\ editorCleanup' = TRUE
            /\ editorStopQueued' = stop
            /\ UNCHANGED editorLastFrameTimeRef

editorRest == << panelVars, calibration, hookVarsButReturn, animationVars, captureVars,
                 efPc, plPc, seqVars, sheetVars, handleVars, worldVars, histVars >>

\* the checkbox of a frame of the timeline: toggleFrame(index)
ToggleFrame(index) ==
    /\ index \in 0..(Len(frames) - 1)
    /\ frames' = toggleFrame(frames, index)
    /\ EditorPlaybackEffect(editorIsPlaying, frames', fps, editorStopQueued)
    /\ calOp' = "toggleFrame" /\ calArg' = index /\ calReturn' = ""
    /\ UNCHANGED << fps, editorCurrentFrame, editorIsPlaying, importVars,
                    editorSheetVars, editorRest >>

\* the play / pause button: setIsPlaying(!isPlaying)
PlayPause ==
    /\ Len(frames) > 0
    /\ Len(getActiveFrames(frames)) # 0
    /\ editorIsPlaying' = ~editorIsPlaying
    /\ EditorPlaybackEffect(editorIsPlaying', frames, fps, editorStopQueued)
    /\ calOp' = "setIsPlaying" /\ calArg' = editorIsPlaying' /\ calReturn' = ""
    /\ UNCHANGED << frames, fps, editorCurrentFrame, importVars, editorSheetVars,
                    editorRest >>

\* the speed slider: setFps(value)
SetFps(value) ==
    /\ Len(frames) > 0
    /\ value # fps
    /\ fps' = value
    /\ EditorPlaybackEffect(editorIsPlaying, frames, fps', editorStopQueued)
    /\ calOp' = "setFps" /\ calArg' = value /\ calReturn' = ""
    /\ UNCHANGED << frames, editorCurrentFrame, editorIsPlaying, importVars,
                    editorSheetVars, editorRest >>

\* the render of the setIsPlaying(false) the playback effect asked for
EditorStopRendered ==
    /\ editorStopQueued
    /\ editorIsPlaying' = FALSE
    /\ IF editorIsPlaying
       THEN EditorPlaybackEffect(FALSE, frames, fps, FALSE)
       ELSE /\ editorStopQueued' = FALSE
            /\ UNCHANGED << rafQueue, editorAnimationFrameRef, editorLastFrameTimeRef,
                            editorCleanup >>
    /\ calOp' = "stopRendered" /\ calArg' = "" /\ calReturn' = ""
    /\ UNCHANGED << frames, fps, editorCurrentFrame, importVars, editorSheetVars,
                    editorRest >>

\* updateFrame of the editor, called by the browser with a timestamp
EditorUpdateFrame(cb, elapsed) ==
    /\ cb \in rafQueue /\ cb.owner = "editor"
    /\ LET waited == IF editorLastFrameTimeRef THEN elapsed ELSE 0
           queue1 == rafQueue \ {cb}
           id == RequestId(queue1)
       IN /\ IF FrameTimeReached(waited, cb.fps)
             THEN /\ editorCurrentFrame' = NextOf(editorCurrentFrame, cb.len)
                  /\ calArg' = "advance"
             ELSE /\ UNCHANGED editorCurrentFrame
                  /\ calArg' = "wait"
          /\ editorLastFrameTimeRef' = TRUE
          /\ editorAnimationFrameRef' = id
          /\ rafQueue' = queue1 \cup {[cb EXCEPT !.id = id]}
    /\ calOp' = "updateFrame" /\ calReturn' = ""
    /\ UNCHANGED << frames, fps, editorIsPlaying, editorCleanup, editorStopQueued,
                    importVars, editorSheetVars, editorRest >>

\* the skip-back button of the page
HandlePreviousFrame ==
    /\ Len(frames) > 0
    /\ ~editorIsPlaying /\ Len(getActiveFrames(frames)) # 0
    /\ LET n == Len(getActiveFrames(frames))
       IN editorCurrentFrame' = (editorCurrentFrame - 1 + n) % n
    /\ calOp' = "handlePreviousFrame" /\ calArg' = "" /\ calReturn' = ""
    /\ UNCHANGED << frames, fps, editorIsPlaying, editorAnimationFrameRef,
                    editorLastFrameTimeRef, editorCleanup, editorStopQueued, rafQueue,
                    importVars, editorSheetVars, editorRest >>

\* the skip-forward button of the page
HandleNextFrame ==
    /\ Len(frames) > 0
    /\ ~editorIsPlaying /\ Len(getActiveFrames(frames)) # 0
    /\ editorCurrentFrame' = NextOf(editorCurrentFrame, Len(getActiveFrames(frames)))
    /\ calOp' = "handleNextFrame" /\ calArg' = "" /\ calReturn' = ""
    /\ UNCHANGED << frames, fps, editorIsPlaying, editorAnimationFrameRef,
                    editorLastFrameTimeRef, editorCleanup, editorStopQueued, rafQueue,
                    importVars, editorSheetVars, editorRest >>

----------------------------------------------------------------------------
(* importFramesFromFolder: file names are sequences of characters *)

MaxListing == 3      \* import: the directory holds at most MaxListing files

UpperChars == << "A", "B", "C", "D", "E", "F", "G", "H", "I", "J", "K", "L", "M",
                 "N", "O", "P", "Q", "R", "S", "T", "U", "V", "W", "X", "Y", "Z" >>
LowerChars == << "a", "b", "c", "d", "e", "f", "g", "h", "i", "j", "k", "l", "m",
                 "n", "o", "p", "q", "r", "s", "t", "u", "v", "w", "x", "y", "z" >>

\* f.toLowerCase()
toLowerCase(s) ==
    [k \in 1..Len(s) |->
        IF \E u \in 1..26 : UpperChars[u] = s[k]
        THEN LowerChars[CHOOSE u \in 1..26 : UpperChars[u] = s[k]]
        ELSE s[k]]

endsWith(s, suffix) ==
    /\ Len(s) >= Len(suffix)
    /\ SubSeq(s, Len(s) - Len(suffix) + 1, Len(s)) = suffix

\* f.toLowerCase().endsWith('.png')
IsPng(f) == endsWith(toLowerCase(f), <<".", "p", "n", "g">>)

IsDigit(c) == \E k \in 1..10 : DigitChars[k] = c

DigitValue(c) == (CHOOSE k \in 1..10 : DigitChars[k] = c) - 1

\* the digits of s from position k up to the first character that is no digit
RECURSIVE DigitRun(_, _)
DigitRun(s, k) ==
    IF k > Len(s) \/ ~IsDigit(s[k]) THEN <<>> ELSE <<s[k]>> \o DigitRun(s, k + 1)

\* a.match(/\d+/): the first run of digits of the name, <<>> when null
MatchDigits(s) ==
    IF \E k \in 1..Len(s) : IsDigit(s[k])
    THEN DigitRun(s, CHOOSE k \in 1..Len(s) :
                        IsDigit(s[k]) /\ \A m \in 1..(k - 1) : ~IsDigit(s[m]))
    ELSE <<>>

\* parseInt of a run of decimal digits
RECURSIVE parseInt(_)
parseInt(ds) ==
    IF Len(ds) = 0 THEN 0
    ELSE 10 * parseInt(SubSeq(ds, 1, Len(ds) - 1)) + DigitValue(ds[Len(ds)])

\* aMatch ? parseInt(aMatch[0]) : 0
FrameNumber(f) == IF MatchDigits(f) = <<>> THEN 0 ELSE parseInt(MatchDigits(f))

\* a < b for strings, character by character
RECURSIVE LexLess(_, _)
LexLess(a, b) ==
    IF Len(b) = 0 THEN FALSE
    ELSE IF Len(a) = 0 THEN TRUE
    ELSE IF a[1] = b[1] THEN LexLess(Tail(a), Tail(b))
    ELSE IF IsDigit(a[1]) /\ IsDigit(b[1]) THEN DigitValue(a[1]) < DigitValue(b[1])
    ELSE IsDigit(a[1])

CompareFilesLexical(a, b) ==
    IF LexLess(MatchDigits(a), MatchDigits(b)) THEN -1
    ELSE IF LexLess(MatchDigits(b), MatchDigits(a)) THEN 1 ELSE 0

\* the comparator handed to sort: aNum - bNum
CompareFiles(a, b) == FrameNumber(a) - FrameNumber(b)

\* Array.prototype.sort is stable: x goes behind every element that does not
\* compare greater than it
RECURSIVE InsertSorted(_, _)
InsertSorted(sorted, x) ==
    IF sorted = <<>> THEN <<x>>
    ELSE IF CompareFiles(sorted[Len(sorted)], x) <= 0 THEN Append(sorted, x)
    ELSE Append(InsertSorted(SubSeq(sorted, 1, Len(sorted) - 1), x), sorted[Len(sorted)])

RECURSIVE SortFiles(_)
SortFiles(files) ==
    IF files = <<>> THEN <<>>
    ELSE InsertSorted(SortFiles(SubSeq(files, 1, Len(files) - 1)), files[Len(files)])

\* files.filter(f => f.toLowerCase().endsWith('.png')).sort(...)
ImageFiles(files) == SortFiles(SelectSeq(files, IsPng))

\* a file of the directory: what readImageFile and the decoder make of it
\* ("image", "none": the read returns null, "throws": the read rejects,
\* "corrupt": the image fires onerror)
Entry(name, content, w, h) == [name |-> name, content |-> content, width |-> w, height |-> h]

\* window.electron.readDirectory(folderPath)
Listing(dir) == [k \in 1..Len(dir) |-> dir[k].name]

EntryOf(dir, name) == dir[CHOOSE k \in 1..Len(dir) : dir[k].name = name]

SkipToEnd(i, n) == n

\* continue, and the catch of the loop body: on to the next file
SkipTo(i, n) == i + 1

ingestRest == << panelVars, calibration, hookVarsButReturn, animationVars, captureVars,
                 efPc, plPc, seqVars, sheetVars, handleVars, sceneFrame, rotationY,
                 fsDirs, fsFiles, histVars, editorSheetVars, fps, editorIsPlaying,
                 folder >>

\* the import reached its finally without touching the frames
ImportEnds(result, message) ==
    /\ isLoading' = FALSE /\ imPc' = "idle"
    /\ toasts' = (IF message = "" THEN toasts
                  ELSE Append(toasts, Toast("Error", message, NoPath)))
    /\ calOp' = "importFramesFromFolder" /\ calArg' = "" /\ calReturn' = result
    /\ UNCHANGED << frames, editorCurrentFrame, editorAnimationFrameRef,
                    editorLastFrameTimeRef, editorCleanup, editorStopQueued, rafQueue,
                    imI, imageFiles, loadedFrames, ingestRest >>

\* the import is suspended at its next await
ImportAwaits(pc) ==
    /\ isLoading' = TRUE /\ imPc' = pc
    /\ calOp' = "importFramesFromFolder" /\ calArg' = "" /\ calReturn' = ""
    /\ UNCHANGED << frames, editorCurrentFrame, editorAnimationFrameRef,
                    editorLastFrameTimeRef, editorCleanup, editorStopQueued, rafQueue,
                    toasts, ingestRest >>

\* the Import Frames button: importFramesFromFolder up to selectDirectory
ImportFramesFromFolder ==
    /\ imPc = "idle" /\ ~isLoading
    /\ IF ~hasElectronAPI /\ ~hasElectronAPIFallback
       THEN /\ ImportEnds("no api", "File system access is not available")
       ELSE /\ ImportAwaits("selectDirectory")
            /\ UNCHANGED << imI, imageFiles, loadedFrames >>

\* selectDirectory settled (picked, cancelled, or rejected)
ImportDirectorySelected(outcome) ==
    /\ imPc = "selectDirectory"
    /\ CASE outcome = "cancelled" -> ImportEnds("cancelled", "")
         [] outcome = "throws" -> ImportEnds("error", "Failed to import frames")
         [] OTHER -> /\ ImportAwaits("readDirectory")
                     /\ UNCHANGED << imI, imageFiles, loadedFrames >>

\* readDirectory settled: filter, sort, and the first readImageFile
ImportDirectoryRead(outcome) ==
    /\ imPc = "readDirectory"
    /\ IF outcome = "throws"
       THEN ImportEnds("error", "Failed to import frames")
       ELSE IF Len(ImageFiles(Listing(folder))) = 0
       THEN /\ isLoading' = FALSE /\ imPc' = "idle"
            /\ imageFiles' = <<>>
            /\ toasts' = Append(toasts, Toast("No frames found",
                                   "No PNG files found in the selected folder", NoPath))
            /\ calOp' = "importFramesFromFolder" /\ calArg' = "" /\ calReturn' = "no png"
            /\ UNCHANGED << frames, editorCurrentFrame, editorAnimationFrameRef,
                            editorLastFrameTimeRef, editorCleanup, editorStopQueued,
                            rafQueue, imI, loadedFrames, ingestRest >>
       ELSE /\ ImportAwaits("readImageFile")
            /\ imageFiles' = ImageFiles(Listing(folder))
            /\ loadedFrames' = <<>>
            /\ imI' = 0

\* the loop goes on with file i, or ends behind the last file
ImportLoop(i, loaded) ==
    /\ loadedFrames' = loaded
    /\ imI' = i
    /\ UNCHANGED imageFiles
    /\ IF i < Len(imageFiles)
       THEN ImportAwaits("readImageFile")
       ELSE /\ isLoading' = FALSE /\ imPc' = "idle"
            /\ calOp' = "importFramesFromFolder" /\ calArg' = ""
            /\ UNCHANGED ingestRest
            /\ IF Len(loaded) = 0
               THEN /\ toasts' = Append(toasts,
                                    Toast("Error", "Failed to load any frames", NoPath))
                    /\ calReturn' = "empty"
                    /\ UNCHANGED << frames, editorCurrentFrame, editorAnimationFrameRef,
                                    editorLastFrameTimeRef, editorCleanup,
                                    editorStopQueued, rafQueue >>
               ELSE /\ frames' = loaded
                    /\ editorCurrentFrame' = 0
                    /\ EditorPlaybackEffect(editorIsPlaying, loaded, fps, editorStopQueued)
                    /\ calReturn' = "loaded"
                    /\ UNCHANGED toasts

\* readImageFile settled for file imI
ImportFileRead ==
    /\ imPc = "readImageFile"
    /\ LET entry == EntryOf(folder, imageFiles[imI + 1])
       IN IF entry.content \in {"none", "throws"}
          THEN ImportLoop(SkipTo(imI, Len(imageFiles)), loadedFrames)
          ELSE /\ ImportAwaits("decode")
               /\ UNCHANGED << imI, imageFiles, loadedFrames >>

\* the image of file imI fired onload or onerror
ImportImageDecoded(now) ==
    /\ imPc = "decode"
    /\ LET entry == EntryOf(folder, imageFiles[imI + 1])
       IN IF entry.content = "corrupt"
          THEN ImportLoop(SkipTo(imI, Len(imageFiles)), loadedFrames)
          ELSE ImportLoop(imI + 1,
                          Append(loadedFrames,
                                 Frame(<<now, imI>>, entry.name, <<"data", entry.name>>,
                                       TRUE, entry.width, entry.height)))

----------------------------------------------------------------------------
(* The frame editor page: specifications *)

\* a click on an enabled frame of the timeline: setCurrentFrame(activeIndex)
SelectFrame(index) ==
    /\ index \in 0..(Len(frames) - 1)
    /\ frames[index + 1].enabled
    /\ editorCurrentFrame' =
          Len(getActiveFrames(SubSeq(frames, 1, index + 1))) - 1
    /\ calOp' = "selectFrame" /\ calArg' = index /\ calReturn' = ""
    /\ UNCHANGED << frames, fps, editorIsPlaying, editorAnimationFrameRef,
                    editorLastFrameTimeRef, editorCleanup, editorStopQueued, rafQueue,
                    importVars, editorSheetVars, editorRest >>

F1 == <<"f", "1", ".", "p", "n", "g">>
F2 == <<"f", "2", ".", "p", "n", "g">>
F10 == <<"f", "1", "0", ".", "p", "n", "g">>
F01 == <<"f", "0", "1", ".", "p", "n", "g">>
APNG == <<"a", ".", "P", "N", "G">>
N2TXT == <<"n", "2", ".", "t", "x", "t">>

FileNames == {F1, F2, F10, F01, APNG, N2TXT}

FailureKinds == {"none", "throws", "corrupt"}

\* the directories the user may pick: up to MaxListing files of distinct
\* names, each an image or, all in the same way, a file that does not load
Folders ==
    UNION { { dir \in [1..n -> {Entry(name, content, 1, 1) :
                                   name \in FileNames, content \in {"image", kind}}] :
                \A i, j \in 1..n : i # j => dir[i].name # dir[j].name }
            : n \in 0..MaxListing, kind \in FailureKinds }

\* frames loaded by an import: k frames of the given sizes, all enabled
LoadedFrames(sizes) ==
    [k \in 1..Len(sizes) |->
        Frame(<<0, k - 1>>, NumberToString(k) \o <<".", "p", "n", "g">>,
              <<"data", NumberToString(k) \o <<".", "p", "n", "g">>>>, TRUE,
              sizes[k][1], sizes[k][2])]

\* the state of the other hooks while the frame editor page is open
EditorPageOnly ==
    /\ width = 2 /\ height = 1
    /\ gfx = DefaultGfx
    /\ renderSteps = 1
    /\ totalFrames = 0
    /\ outputFolder = ""
    /\ currentAnimation = <<>>
    /\ calibration = <<>>
    /\ selectedAngles = StandardAngles
    /\ sceneAvail = FALSE
    /\ hasContainer = FALSE
    /\ model = <<>>
    /\ profiles = NoProfiles
    /\ CalibrationIdle
    /\ AnimationIdle
    /\ rafQueue = {}
    /\ sceneFrame = 0 /\ rotationY = 0
    /\ CaptureIdle
    /\ PipelineIdle

\* the editor holds nothing, or two frames of an earlier import of which the
\* second one was selected and then disabled
InitIngest ==
    /\ EditorPageOnly
    /\ folder \in Folders
    /\ apis \in {{}, {"electron"}}
    /\ apis = {} => folder = <<>>
    /\ fps = DefaultFps
    /\ editorIsPlaying = FALSE
    /\ editorAnimationFrameRef = 0 /\ editorLastFrameTimeRef = FALSE
    /\ editorCleanup = FALSE /\ editorStopQueued = FALSE
    /\ isLoading = FALSE /\ imPc = "idle" /\ imI = 0
    /\ imageFiles = <<>> /\ loadedFrames = <<>>
    /\ xsPc = "idle" /\ xsI = 0 /\ xsActive = <<>> /\ xsCanvas = NoCanvas
    /\ downloads = <<>>
    /\ \/ frames = <<>> /\ editorCurrentFrame = 0
       \/ /\ frames = toggleFrame(LoadedFrames(<< <<1, 1>>, <<1, 1>> >>), 1)
          /\ editorCurrentFrame = 1

\* the first click on Import Frames
ImportInvoke == calOp = "" /\ ImportFramesFromFolder

NextIngest ==
    \/ ImportInvoke
    \/ \E outcome \in {"picked", "cancelled", "throws"} : ImportDirectorySelected(outcome)
    \/ \E outcome \in {"listed", "throws"} : ImportDirectoryRead(outcome)
    \/ ImportFileRead
    \/ \E now \in 0..MaxStamp : ImportImageDecoded(now)

SpecIngest == InitIngest /\ [][NextIngest]_vars

\* one to MaxFrames frames are loaded and nothing else happened yet
InitEditor ==
    /\ EditorPageOnly
    /\ apis = {"electron"}
    /\ folder = <<>>
    /\ fps = DefaultFps
    /\ editorIsPlaying = FALSE
    /\ editorAnimationFrameRef = 0 /\ editorLastFrameTimeRef = FALSE
    /\ editorCleanup = FALSE /\ editorStopQueued = FALSE
    /\ isLoading = FALSE /\ imPc = "idle" /\ imI = 0
    /\ imageFiles = <<>> /\ loadedFrames = <<>>
    /\ xsPc = "idle" /\ xsI = 0 /\ xsActive = <<>> /\ xsCanvas = NoCanvas
    /\ downloads = <<>>
    /\ \E n \in 1..MaxFrames : frames = LoadedFrames([k \in 1..n |-> <<1, 1>>])
    /\ editorCurrentFrame = 0

NextEditor ==
    \/ \E index \in 0..(MaxFrames - 1) : ToggleFrame(index)
    \/ \E index \in 0..(MaxFrames - 1) : SelectFrame(index)
    \/ PlayPause
    \/ \E value \in FpsValues : SetFps(value)
    \/ EditorStopRendered
    \/ \E cb \in rafQueue, elapsed \in ElapsedTimes : EditorUpdateFrame(cb, elapsed)
    \/ HandlePreviousFrame
    \/ HandleNextFrame

SpecEditor == InitEditor /\ [][NextEditor]_vars

----------------------------------------------------------------------------
(* exportAsSpriteSheet of the frame editor *)

CellSizeOfLast(active) ==
    [width |-> active[Len(active)].width, height |-> active[Len(active)].height]

\* frameWidth = activeFrames[0].width, frameHeight = activeFrames[0].height
CellSize(active) == [width |-> active[1].width, height |-> active[1].height]

\* canvas.width = frameWidth * activeFrames.length; canvas.height = frameHeight
StripCanvas(active) ==
    [width |-> CellSize(active).width * Len(active), height |-> CellSize(active).height,
     drawn |-> <<>>]

\* ctx.drawImage(img, i * frameWidth, 0, frameWidth, frameHeight): the image
\* of frame i, of its native size, is drawn into a rectangle of the size given
DrawImage(canvas, frame, i, cell) ==
    [canvas EXCEPT !.drawn = Append(@, [data |-> frame.data,
                                         naturalWidth |-> frame.width,
                                         naturalHeight |-> frame.height,
                                         x |-> i * cell.width, y |-> 0,
                                         width |-> cell.width,
                                         height |-> cell.height])]

sheetRest == << panelVars, calibration, hookVarsButReturn, animationVars, captureVars,
                efPc, plPc, seqVars, sheetVars, handleVars, sceneFrame, rotationY,
                fsDirs, fsFiles, histVars, playbackVars, importVars, rafQueue >>

\* exportAsSpriteSheet ran into its catch, or found nothing to export
EditorSheetFails(message) ==
    /\ xsPc' = "idle"
    /\ toasts' = Append(toasts, Toast("Error", message, NoPath))
    /\ calOp' = "exportAsSpriteSheet" /\ calArg' = "" /\ calReturn' = "error"
    /\ UNCHANGED downloads

\* exportAsSpriteSheet up to the load of the first image; hasContext tells
\* whether canvas.getContext('2d') gave a context
ExportAsSpriteSheet(hasContext) ==
    /\ xsPc = "idle"
    /\ LET active == getActiveFrames(frames)
       IN IF Len(active) = 0
          THEN /\ EditorSheetFails("No active frames to export")
               /\ UNCHANGED << xsI, xsActive, xsCanvas >>
          ELSE /\ xsActive' = active
               /\ xsCanvas' = StripCanvas(active)
               /\ xsI' = 0
               /\ IF ~hasContext
                  THEN EditorSheetFails("Failed to export sprite sheet")
                  ELSE /\ xsPc' = "load"
                       /\ calOp' = "exportAsSpriteSheet" /\ calArg' = ""
                       /\ calReturn' = ""
                       /\ UNCHANGED << toasts, downloads >>
    /\ UNCHANGED sheetRest

\* the image of active frame xsI fired onload (loaded) or onerror
EditorSheetImageLoaded(loaded) ==
    /\ xsPc = "load"
    /\ UNCHANGED << xsActive, sheetRest >>
    /\ IF ~loaded
       THEN /\ EditorSheetFails("Failed to export sprite sheet")
            /\ UNCHANGED << xsI, xsCanvas >>
       ELSE /\ xsCanvas' = DrawImage(xsCanvas, xsActive[xsI + 1], xsI, CellSize(xsActive))
            /\ xsI' = xsI + 1
            /\ calOp' = "exportAsSpriteSheet" /\ calArg' = ""
            /\ UNCHANGED toasts
            /\ IF xsI + 1 < Len(xsActive)
               THEN /\ xsPc' = "load"
                    /\ calReturn' = ""
                    /\ UNCHANGED downloads
               ELSE /\ xsPc' = "idle"
                    /\ downloads' = Append(downloads, xsCanvas')
                    /\ calReturn' = "exported"

\* the first click on Export Sprite Sheet
ExportSheetInvoke ==
    /\ downloads = <<>> /\ toasts = <<>>
    /\ \E hasContext \in BOOLEAN : ExportAsSpriteSheet(hasContext)

FrameSizes == (1..MaxFrameDim) \X (1..MaxFrameDim)

\* up to MaxFrames frames of any sizes are loaded, all enabled
InitEditorSheet ==
    /\ EditorPageOnly
    /\ apis = {"electron"}
    /\ folder = <<>>
    /\ fps = DefaultFps
    /\ editorIsPlaying = FALSE
    /\ editorAnimationFrameRef = 0 /\ editorLastFrameTimeRef = FALSE
    /\ editorCleanup = FALSE /\ editorStopQueued = FALSE
    /\ isLoading = FALSE /\ imPc = "idle" /\ imI = 0
    /\ imageFiles = <<>> /\ loadedFrames = <<>>
    /\ xsPc = "idle" /\ xsI = 0 /\ xsActive = <<>> /\ xsCanvas = NoCanvas
    /\ downloads = <<>>
    /\ \E n \in 0..MaxFrames : \E sizes \in [1..n -> FrameSizes] :
          frames = LoadedFrames(sizes)
    /\ editorCurrentFrame = 0

NextEditorSheet ==
    \/ \E index \in 0..(MaxFrames - 1) : ToggleFrame(index)
    \/ ExportSheetInvoke
    \/ \E loaded \in BOOLEAN : EditorSheetImageLoaded(loaded)

SpecEditorSheet == InitEditorSheet /\ [][NextEditorSheet]_vars

----------------------------------------------------------------------------
(* useAnimation (useSafeModelCalibration.tsx, lines 247-377).              *)
(* A handler is modelled with the renders it causes: the effects of a      *)
(* render see the state of that render, their state updates are applied    *)
(* together in the next render, until a render changes nothing.            *)

\* const fps = 30
AnimationFps == 30

\* one clip of model.animations
Clip(name, duration) == [name |-> name, duration |-> duration]

\* a loaded model with its clips
AnimatedModel(clips) ==
    << [scene |-> TRUE, box |-> Box(RInt(0), RInt(1), RInt(1), RInt(1)),
        animations |-> clips] >>

\* model && model.animations
HasAnimations(m) == m # <<>> /\ "animations" \in DOMAIN m[1]

\* model.animations.map(anim => anim.name)
AnimNames(m) == [k \in 1..Len(m[1].animations) |-> m[1].animations[k].name]

\* model.animations.find(anim => anim.name === name), <<>> when undefined
FindClip(m, name) ==
    LET clips == m[1].animations
    IN IF \E k \in 1..Len(clips) : clips[k].name = name
       THEN << clips[CHOOSE k \in 1..Len(clips) :
                        /\ clips[k].name = name
                        /\ \A j \in 1..(k - 1) : clips[j].name # name] >>
       ELSE <<>>

TotalFramesOfRounded(duration) == (2 * duration.n * AnimationFps + duration.d) \div (2 * duration.d)

\* Math.floor(selectedAnim.duration * fps)
TotalFramesOf(duration) == RMul(duration, RInt(AnimationFps)).n \div RMul(duration, RInt(AnimationFps)).d

\* what a render of useAnimation sees: the prop and the state
AnimationState(m, playing, anim, names, frame, total) ==
    [model |-> m, isPlaying |-> playing, currentAnimation |-> anim, animations |-> names,
     currentFrame |-> frame, totalFrames |-> total]

\* the refs of the playback effect, and the callbacks of the browser
AnimationTimer(ref, cleanup, queue) == [ref |-> ref, cleanup |-> cleanup, queue |-> queue]

\* the effect on [model], lines 259-274
ModelEffect(st) ==
    IF ~HasAnimations(st.model)
    THEN [st EXCEPT !.animations = <<>>, !.currentAnimation = <<>>,
                    !.totalFrames = 0, !.currentFrame = 0]
    ELSE [st EXCEPT !.animations = AnimNames(st.model),
                    !.currentAnimation =
                       IF Len(AnimNames(st.model)) > 0 /\ st.currentAnimation = <<>>
                       THEN AnimNames(st.model)[1] ELSE @]

\* the effect on [model, currentAnimation], lines 277-293: the updates it
\* makes, seen from the state st of its render, applied to the state to
FrameCountEffect(st, to) ==
    IF ~HasAnimations(st.model) \/ st.currentAnimation = <<>>
    THEN [to EXCEPT !.totalFrames = 0, !.currentFrame = 0]
    ELSE IF FindClip(st.model, st.currentAnimation) # <<>>
    THEN [to EXCEPT !.totalFrames =
                        TotalFramesOf(FindClip(st.model, st.currentAnimation)[1].duration),
                    !.currentFrame = 0]
    ELSE to

\* the playback effect, lines 296-338: the cleanup of its last run, then its
\* body on the state st of its render
AnimationPlaybackEffect(st, timer) ==
    LET cleaned == timer.cleanup /\ timer.ref # 0
        queue1 == IF cleaned THEN cancelAnimationFrame(timer.queue, timer.ref)
                  ELSE timer.queue
        ref1 == IF cleaned THEN 0 ELSE timer.ref
    IN IF \/ ~st.isPlaying \/ ~HasAnimations(st.model)
          \/ st.currentAnimation = <<>> \/ st.totalFrames = 0
       THEN AnimationTimer(0, FALSE,
                           IF ref1 # 0 THEN cancelAnimationFrame(queue1, ref1) ELSE queue1)
       ELSE IF FindClip(st.model, st.currentAnimation) = <<>>
       THEN AnimationTimer(ref1, FALSE, queue1)
       ELSE AnimationTimer(RequestId(queue1), TRUE,
                           queue1 \cup {Callback(RequestId(queue1), "animation",
                                                 st.totalFrames, AnimationFps)})

\* the render of state cur after the render of state prev, and the renders
\* its effects cause
RECURSIVE AnimationRender(_, _, _)
AnimationRender(prev, cur, timer) ==
    LET afterModel == IF prev.model # cur.model THEN ModelEffect(cur) ELSE cur
        next == IF prev.model # cur.model \/ prev.currentAnimation # cur.currentAnimation
                THEN FrameCountEffect(cur, afterModel) ELSE afterModel
        timer1 == IF \/ prev.isPlaying # cur.isPlaying \/ prev.model # cur.model
                     \/ prev.currentAnimation # cur.currentAnimation
                     \/ prev.totalFrames # cur.totalFrames
                  THEN AnimationPlaybackEffect(cur, timer) ELSE timer
    IN IF next = cur THEN [state |-> cur, timer |-> timer1]
       ELSE AnimationRender(cur, next, timer1)

\* the state and the refs of the hook as they are now
AnimationNow ==
    AnimationState(model, isPlaying, currentAnimation, animations, currentFrame, totalFrames)

animationRest == << width, height, renderSteps, outputFolder, sceneAvail, apis,
                    hasContainer, selectedAngles, calibration, isCalibrating, calTimers,
                    containerScale, containerY, profiles, editorVars, captureVars,
                    efPc, plPc, seqVars, sheetVars, handleVars, worldVars, histVars >>

\* a handler left the state cur behind: render until nothing changes
AnimationCommit(cur) ==
    LET done == AnimationRender(AnimationNow, cur,
                                AnimationTimer(animationFrameRef, animationCleanup, rafQueue))
    IN /\ model' = done.state.model
       /\ isPlaying' = done.state.isPlaying
       /\ currentAnimation' = done.state.currentAnimation
       /\ animations' = done.state.animations
       /\ currentFrame' = done.state.currentFrame
       /\ totalFrames' = done.state.totalFrames
       /\ animationFrameRef' = done.timer.ref
       /\ animationCleanup' = done.timer.cleanup
       /\ rafQueue' = done.timer.queue
       /\ UNCHANGED << lastFrameTimeRef, animationRest >>

\* the page hands another model to useAnimation
ModelChange(m) ==
    /\ m # model
    /\ AnimationCommit([AnimationNow EXCEPT !.model = m])
    /\ calOp' = "model" /\ calArg' = "" /\ calReturn' = ""

\* setCurrentAnimation of the hook's result: setAnimation(animation)
SetAnimation(name) ==
    /\ name # currentAnimation
    /\ AnimationCommit([AnimationNow EXCEPT !.currentAnimation = name])
    /\ calOp' = "setAnimation" /\ calArg' = name /\ calReturn' = ""

TogglePlayPause ==
    /\ AnimationCommit([AnimationNow EXCEPT !.isPlaying = ~isPlaying])
    /\ calOp' = "togglePlayPause" /\ calArg' = "" /\ calReturn' = ""

previousFrameClamped(prev, total) == IF prev <= 0 THEN 0 ELSE prev - 1

\* if (prev <= 0) return totalFrames - 1; return prev - 1
previousFrame(prev, total) == IF prev <= 0 THEN total - 1 ELSE prev - 1

\* if (prev >= totalFrames - 1) return 0; return prev + 1
nextFrame(prev, total) == IF prev >= total - 1 THEN 0 ELSE prev + 1

\* previousFrame(); calArg keeps the frame it started from
PreviousFrame ==
    /\ AnimationCommit([AnimationNow EXCEPT
                           !.currentFrame = previousFrame(currentFrame, totalFrames)])
    /\ calOp' = "previousFrame" /\ calArg' = currentFrame /\ calReturn' = ""

\* nextFrame(); calArg keeps the frame it started from
NextFrame ==
    /\ AnimationCommit([AnimationNow EXCEPT
                           !.currentFrame = nextFrame(currentFrame, totalFrames)])
    /\ calOp' = "nextFrame" /\ calArg' = currentFrame /\ calReturn' = ""

\* updateFrame of useAnimation, called by the browser with a timestamp
AnimationUpdateFrame(cb, elapsed) ==
    /\ cb \in rafQueue /\ cb.owner = "animation"
    /\ LET waited == IF lastFrameTimeRef THEN elapsed ELSE 0
           queue1 == rafQueue \ {cb}
           id == RequestId(queue1)
       IN /\ IF FrameTimeReached(waited, cb.fps)
             THEN /\ currentFrame' = NextOf(currentFrame, cb.len)
                  /\ calArg' = "advance"
             ELSE /\ UNCHANGED currentFrame
                  /\ calArg' = "wait"
          /\ lastFrameTimeRef' = TRUE
          /\ animationFrameRef' = id
          /\ rafQueue' = queue1 \cup {[cb EXCEPT !.id = id]}
    /\ calOp' = "animation.updateFrame" /\ calReturn' = ""
    /\ UNCHANGED << model, isPlaying, currentAnimation, animations, totalFrames,
                    animationCleanup, animationRest >>

Walk == <<"w", "a", "l", "k">>
Blink == <<"b", "l", "i", "n", "k">>
Hop == <<"h", "o", "p">>
Ghost == <<"g", "h", "o", "s", "t">>

\* a clip of two seconds and one shorter than a frame
WalkModel == AnimatedModel(<< Clip(Walk, RInt(2)), Clip(Blink, Rat(1, 60)) >>)

\* a clip of a tenth of a second, and a walk of another length
HopModel == AnimatedModel(<< Clip(Hop, Rat(1, 10)), Clip(Walk, Rat(1, 6)) >>)

\* a model whose animations array is empty
StillModel == AnimatedModel(<<>>)

AnimationModels == {<<>>, WalkModel, HopModel, StillModel, TallModel}

\* the 3D page is open, useAnimation is mounted without a model
AnimationPageOnly ==
    /\ width = 2 /\ height = 1
    /\ gfx = DefaultGfx
    /\ renderSteps = 1
    /\ outputFolder = ""
    /\ calibration = <<>>
    /\ selectedAngles = StandardAngles
    /\ sceneAvail = FALSE
    /\ hasContainer = FALSE
    /\ apis = {"electron"}
    /\ profiles = NoProfiles
    /\ CalibrationIdle
    /\ EditorIdle /\ folder = <<>>
    /\ sceneFrame = 0 /\ rotationY = 0
    /\ CaptureIdle
    /\ PipelineIdle

InitAnimation ==
    /\ AnimationPageOnly
    /\ model = <<>>
    /\ currentAnimation = <<>>
    /\ totalFrames = 0
    /\ AnimationIdle
    /\ rafQueue = {}

NextAnimation ==
    \/ \E m \in AnimationModels : ModelChange(m)
    \/ \E name \in {Walk, Blink, Hop, Ghost} : SetAnimation(name)
    \/ TogglePlayPause
    \/ PreviousFrame
    \/ NextFrame
    \/ \E cb \in rafQueue, elapsed \in ElapsedTimes : AnimationUpdateFrame(cb, elapsed)

SpecAnimation == InitAnimation /\ [][NextAnimation]_vars

----------------------------------------------------------------------------
(* The two playback timers side by side *)

TimerModels == {<<>>, HopModel, StillModel}

\* two frames are loaded in the editor; useAnimation has no model yet
InitTimers == InitEditor /\ Len(frames) = 2

NextTimers ==
    \/ \E index \in 0..(MaxFrames - 1) : ToggleFrame(index)
    \/ PlayPause
    \/ \E value \in FpsValues : SetFps(value)
    \/ EditorStopRendered
    \/ \E cb \in rafQueue, elapsed \in ElapsedTimes : EditorUpdateFrame(cb, elapsed)
    \/ \E m \in TimerModels : ModelChange(m)
    \/ \E name \in {Hop, Walk} : SetAnimation(name)
    \/ TogglePlayPause
    \/ \E cb \in rafQueue, elapsed \in ElapsedTimes : AnimationUpdateFrame(cb, elapsed)

SpecTimers == InitTimers /\ [][NextTimers]_vars

----------------------------------------------------------------------------
(* One exportSequence call, every continuation of which is eventually run *)

\* export sizes: one the browser encodes, one beyond its canvas limit
ExportWidths == {2, CanvasLimit + 1}

InitTerminate ==
    /\ width \in ExportWidths /\ height = 1
    /\ gfx = DefaultGfx
    /\ renderSteps \in 0..MaxBatchSteps
    /\ totalFrames \in 0..MaxBatchFrames
    /\ outputFolder \in {"", "out"}
    /\ currentAnimation \in {<<>>, AnimationName}
    /\ calibration = <<>>
    /\ selectedAngles = StandardAngles
    /\ sceneAvail \in BOOLEAN
    /\ hasContainer = FALSE
    /\ apis \in SUBSET {"electron", "electronAPI"}
    /\ model = <<>>
    /\ profiles = NoProfiles
    /\ HookIdle
    /\ CaptureIdle
    /\ PipelineIdle

\* timers fire, bridge calls return and image events are delivered: whatever
\* continuation is pending is run
SpecTerminate == InitTerminate /\ [][NextSequence]_vars /\ WF_vars(NextSequence)

----------------------------------------------------------------------------
(* One exportSequence call for every animation name *)

MaxNameLen == 2

\* the nine characters of the regular expression, a letter, a dot, and the
\* replacement character itself
NameChars == HostileChars \cup {"a", ".", "_"}

\* clip names as the model file gives them; the empty name counts as none
ClipNames == UNION { [1..n -> NameChars] : n \in 1..MaxNameLen }

InitNames ==
    /\ width = 2 /\ height = 1
    /\ gfx = DefaultGfx
    /\ renderSteps = 1
    /\ totalFrames = 1
    /\ outputFolder = "out"
    /\ currentAnimation \in ClipNames
    /\ calibration = <<>>
    /\ selectedAngles = StandardAngles
    /\ sceneAvail = TRUE
    /\ hasContainer = FALSE
    /\ apis = {"electron"}
    /\ model = <<>>
    /\ profiles = NoProfiles
    /\ HookIdle
    /\ CaptureIdle
    /\ PipelineIdle

SpecNames == InitNames /\ [][NextSequence]_vars

----------------------------------------------------------------------------
(* A batch with the user at the panels *)

\* a calibrated model with its front face set, a stored profile, two angles
\* selected, one frame to export
InitBatchUser ==
    /\ width = 2 /\ height = 1
    /\ gfx = DefaultGfx
    /\ renderSteps = 1
    /\ totalFrames = 1
    /\ outputFolder = "out"
    /\ currentAnimation = AnimationName
    /\ calibration = <<FrontFaceSet>>
    /\ selectedAngles = SubSeq(StandardAngles, 1, 2)
    /\ sceneAvail = TRUE
    /\ hasContainer = TRUE
    /\ apis = {"electron"}
    /\ model = TallModel
    /\ profiles = [NoProfiles EXCEPT !["hero"] = << ProfileEntry(FrontFaceSet) >>]
    /\ HookIdle
    /\ CaptureIdle
    /\ PipelineIdle

\* the user acts once, while the batch is in flight
UserActsOnce == isExporting /\ calOp = ""

\* the preview button of an angle: disabled={!isFrontFaceSet}
PreviewAngle ==
    /\ UserActsOnce
    /\ calibration # <<>> /\ calibration[1].isFrontFaceSet
    /\ RotateToAngleCall

\* the buttons of the calibration panel: "Calibrer modèle", "Définir face"
\* (shown with a calibration) and the load button of the profiles
PanelAction ==
    /\ UserActsOnce
    /\ \/ ~isCalibrating /\ ManualCalibrate
       \/ calibration # <<>> /\ SetFrontFace
       \/ \E name \in ProfileNames : profiles[name] # <<>> /\ LoadProfile(name)

NextBatchUser ==
    \/ Next
    \/ PreviewAngle
    \/ PanelAction
    \/ ManualCalibrateTimer

SpecBatchUser == InitBatchUser /\ [][NextBatchUser]_vars

----------------------------------------------------------------------------
(* useAnimation with the animation chosen from the list the hook gives *)

\* the page offers the names of `animations` to choose from
SelectAnimation ==
    \E k \in 1..Len(animations) : SetAnimation(animations[k])

NextSelect ==
    \/ \E m \in AnimationModels : ModelChange(m)
    \/ SelectAnimation
    \/ TogglePlayPause
    \/ PreviousFrame
    \/ NextFrame
    \/ \E cb \in rafQueue, elapsed \in ElapsedTimes : AnimationUpdateFrame(cb, elapsed)

SpecSelect == InitAnimation /\ [][NextSelect]_vars

----------------------------------------------------------------------------
(* Frame editor: properties *)

\* res holds the enabled frames of frs, each once, in the order of frs
IsEnabledFilter(res, frs) ==
    \E at \in [1..Len(res) -> 1..Len(frs)] :
        /\ \A i, j \in 1..Len(res) : i < j => at[i] < at[j]
        /\ \A i \in 1..Len(res) : res[i] = frs[at[i]]
        /\ \A k \in 1..Len(frs) : frs[k].enabled <=> \E i \in 1..Len(res) : at[i] = k

\* C21: toggleFrame(index) at a valid index flips frames[index].enabled and
\* nothing else: the number of frames, their order and every other field stay,
\* the number of active frames goes down by one when the frame was enabled and
\* up by one when it was disabled; getActiveFrames() is the order-preserving
\* filter of the current frames by enabled.
C21_ToggleFlipsOneFrame ==
    [][ /\ IsEnabledFilter(getActiveFrames(frames'), frames')
        /\ calOp' = "toggleFrame" =>
              /\ Len(frames') = Len(frames)
              /\ \A k \in 1..Len(frames) :
                    /\ frames'[k].id = frames[k].id
                    /\ frames'[k].filename = frames[k].filename
                    /\ frames'[k].data = frames[k].data
                    /\ frames'[k].width = frames[k].width
                    /\ frames'[k].height = frames[k].height
                    /\ frames'[k].enabled = (IF k = calArg' + 1 THEN ~frames[k].enabled
                                             ELSE frames[k].enabled)
              /\ Len(getActiveFrames(frames')) =
                    (IF frames[calArg' + 1].enabled
                     THEN Len(getActiveFrames(frames)) - 1
                     ELSE Len(getActiveFrames(frames)) + 1) ]_vars

\* the middle frame of three was just disabled
C21_Witness ==
    /\ calOp = "toggleFrame" /\ calArg = 1
    /\ Len(frames) = 3
    /\ Len(getActiveFrames(frames)) = 2
    /\ ~frames[2].enabled

\* the numbers the claim reads in the names of the directory
NumberInName == [name \in FileNames |->
                   CASE name = F1 -> 1 [] name = F2 -> 2 [] name = F10 -> 10
                     [] name = F01 -> 1 [] name = N2TXT -> 2 [] OTHER -> 0]

PositionIn(seq, x) == CHOOSE k \in 1..Len(seq) : seq[k] = x

\* C22: the import orders the PNG files of the listing by the first integer
\* in their names (0 without one), compared as numbers; files of equal number
\* keep the order of the listing; names not ending in .png, whatever the
\* case, are left out; f2.png, f10.png, f1.png comes out as f1, f2, f10.
C22_IngestOrder ==
    imPc \in {"readImageFile", "decode"} =>
        LET listing == Listing(folder)
            pngs == {name \in FileNames \ {N2TXT} : \E k \in 1..Len(listing) : listing[k] = name}
        IN /\ {imageFiles[k] : k \in 1..Len(imageFiles)} = pngs
           /\ Len(imageFiles) = Cardinality(pngs)
           /\ \A i, j \in 1..Len(imageFiles) :
                 i < j => /\ NumberInName[imageFiles[i]] <= NumberInName[imageFiles[j]]
                          /\ NumberInName[imageFiles[i]] = NumberInName[imageFiles[j]]
                                => PositionIn(listing, imageFiles[i])
                                      < PositionIn(listing, imageFiles[j])
           /\ listing = <<F2, F10, F1>> => imageFiles = <<F1, F2, F10>>

\* the listing f2, f10, f1 has been sorted
C22_Witness ==
    /\ imPc = "readImageFile"
    /\ Listing(folder) = <<F2, F10, F1>>
    /\ imageFiles = <<F1, F2, F10>>

\* the files of the sorted list that read and decode
GoodFiles == SelectSeq(imageFiles, LAMBDA name : EntryOf(folder, name).content = "image")

\* C23: a file whose read returns nothing or fails, or that does not decode,
\* is skipped and the files behind it are still loaded, in order; the import
\* fails only when no frame was loaded, and then frames and currentFrame keep
\* their values; when it succeeds frames is the list of the loaded frames,
\* all enabled, and currentFrame is 0.
C23_SkipAndContinue ==
    [][ calOp' = "importFramesFromFolder" =>
          /\ calReturn' \in {"loaded", "empty"} =>
                (calReturn' = "loaded" <=> Len(GoodFiles) > 0)
          /\ calReturn' = "loaded" =>
                /\ [k \in 1..Len(frames') |-> frames'[k].filename] = GoodFiles
                /\ \A k \in 1..Len(frames') : frames'[k].enabled
                /\ editorCurrentFrame' = 0
          /\ calReturn' # "loaded" =>
                /\ frames' = frames
                /\ editorCurrentFrame' = editorCurrentFrame ]_vars

\* three files were listed, the first does not decode, the other two replaced
\* the two frames of before
C23_Witness ==
    /\ calOp = "importFramesFromFolder" /\ calReturn = "loaded"
    /\ Len(imageFiles) = 3
    /\ EntryOf(folder, imageFiles[1]).content = "corrupt"
    /\ [k \in 1..Len(frames) |-> frames[k].filename] = SubSeq(imageFiles, 2, 3)
    /\ editorCurrentFrame = 0

EditorCallbacks == {cb \in rafQueue : cb.owner = "editor"}

\* C24: while the editor plays, an advance of its timer sets currentFrame to
\* (currentFrame + 1) mod the number of frames now active, one step at a
\* time; when it plays and no frame is active, no callback is pending, the
\* stop is on its way, and its render sets isPlaying to false.
C24_PlaybackAdvancesAndStops ==
    [][ /\ (calOp' = "updateFrame" /\ calArg' = "advance") =>
              /\ editorIsPlaying
              /\ Len(getActiveFrames(frames)) > 0
              /\ editorCurrentFrame' =
                    (editorCurrentFrame + 1) % Len(getActiveFrames(frames))
        /\ (editorIsPlaying' /\ Len(getActiveFrames(frames')) = 0) =>
              /\ editorStopQueued'
              /\ EditorCallbacks' = {}
        /\ calOp' = "stopRendered" =>
              /\ ~editorIsPlaying'
              /\ EditorCallbacks' = {} ]_vars

\* the timer wrapped to frame 0 after one of three frames was disabled
C24_Witness ==
    /\ calOp = "updateFrame" /\ calArg = "advance"
    /\ editorIsPlaying
    /\ Len(frames) = 3 /\ Len(getActiveFrames(frames)) = 2
    /\ editorCurrentFrame = 0

\* the sheet the editor handed to the download link
EditorSheet == downloads[Len(downloads)]

\* an artifact exists only for a non-empty active subset, whose first frame
\* gives the cell size
SheetNeedsActiveFrames ==
    /\ (calOp = "exportAsSpriteSheet" /\ Len(xsActive) = 0) => downloads = <<>>
    /\ downloads # <<>> =>
          /\ Len(xsActive) > 0
          /\ Len(EditorSheet.drawn) = Len(xsActive)
          /\ EditorSheet.height = xsActive[1].height
          /\ EditorSheet.width = xsActive[1].width * Len(xsActive)

C26_EditorSheetIsTheGrid ==
    downloads # <<>> =>
        LET n == Len(xsActive)
            grid == SpriteSheetLayout(n, xsActive[1].width, xsActive[1].height)
        IN /\ EditorSheet.width = grid.canvasW
           /\ EditorSheet.height = grid.canvasH
           /\ \A k \in 1..n :
                 /\ EditorSheet.drawn[k].x = CellOf(k - 1, grid.columns).col * xsActive[1].width
                 /\ EditorSheet.drawn[k].y = CellOf(k - 1, grid.columns).row * xsActive[1].height

----------------------------------------------------------------------------
(* useAnimation: properties *)

\* the clip of the model the name stands for, <<>> when there is none
ClipNamed(m, name) ==
    IF HasAnimations(m) /\ name # <<>> THEN FindClip(m, name) ELSE <<>>

\* C27: when the active animation changes to a clip of the model, totalFrames
\* becomes floor(duration * 30) of that clip (60 for two seconds) and
\* currentFrame becomes 0, whatever currentFrame was and whether or not
\* playback runs.
C27_AnimationChangeRecounts ==
    [][ (currentAnimation' # currentAnimation /\ ClipNamed(model', currentAnimation') # <<>>) =>
           LET duration == ClipNamed(model', currentAnimation')[1].duration
           IN /\ totalFrames' * duration.d <= AnimationFps * duration.n
              /\ AnimationFps * duration.n < (totalFrames' + 1) * duration.d
              /\ (duration = RInt(2) => totalFrames' = 60)
              /\ currentFrame' = 0 ]_vars

\* setAnimation chose the clip of two seconds while playback was running
C27_Witness ==
    /\ calOp = "setAnimation" /\ calArg = Walk
    /\ model = WalkModel
    /\ isPlaying
    /\ totalFrames = 60 /\ currentFrame = 0

\* C28: in every state reached through animation changes, model changes,
\* playback advances, previousFrame and nextFrame, for every totalFrames >= 0,
\* currentFrame is at least 0 and below totalFrames; where totalFrames is 0
\* and no such frame exists, currentFrame = 0 is let pass.
C28_CurrentFrameInRange ==
    /\ 0 <= currentFrame
    /\ currentFrame < totalFrames \/ (totalFrames = 0 /\ currentFrame = 0)

\* C29: for totalFrames >= 1, previousFrame at frame 0 gives totalFrames - 1
\* (59 of 60), nextFrame at totalFrames - 1 gives 0, elsewhere they move by
\* one; nextFrame right after previousFrame, and previousFrame right after
\* nextFrame, give back the frame started from.
C29_ScrubbingWraps ==
    [][ totalFrames >= 1 =>
          /\ calOp' = "previousFrame" =>
                /\ currentFrame' = (IF currentFrame = 0 THEN totalFrames - 1
                                    ELSE currentFrame - 1)
                /\ (totalFrames = 60 /\ currentFrame = 0) => currentFrame' = 59
                /\ calOp = "nextFrame" => currentFrame' = calArg
          /\ calOp' = "nextFrame" =>
                /\ currentFrame' = (IF currentFrame = totalFrames - 1 THEN 0
                                    ELSE currentFrame + 1)
                /\ calOp = "previousFrame" => currentFrame' = calArg ]_vars

\* previousFrame went from frame 0 of 60 to frame 59
C29_Witness ==
    /\ calOp = "previousFrame" /\ calArg = 0
    /\ totalFrames = 60
    /\ currentFrame = 59

----------------------------------------------------------------------------
(* Playback timers: properties *)

AnimationCallbacks == {cb \in rafQueue : cb.owner = "animation"}

\* at most one callback of each timer is pending, the hook knows it by its
\* id, and none is pending while its playback is off
TimersTornDown ==
    /\ Cardinality(EditorCallbacks) <= 1
    /\ Cardinality(AnimationCallbacks) <= 1
    /\ \A cb \in EditorCallbacks : cb.id = editorAnimationFrameRef
    /\ \A cb \in AnimationCallbacks : cb.id = animationFrameRef
    /\ ~editorIsPlaying => EditorCallbacks = {}
    /\ Len(getActiveFrames(frames)) = 0 => EditorCallbacks = {}
    /\ ~isPlaying => AnimationCallbacks = {}

\* C30: for the timer of the editor and the timer of useAnimation, through
\* any sequence of play, pause, fps change, toggle and animation change: at
\* most one callback is pending; none is pending once isPlaying is false or,
\* in the editor, no frame is active; and pressing play again leaves exactly
\* one callback pending.
C30_OneTimerTornDownRestartable ==
    [][ /\ TimersTornDown /\ TimersTornDown'
        /\ (calOp' = "setIsPlaying" /\ calArg' = TRUE) =>
              Cardinality(EditorCallbacks') = 1
        /\ (calOp' = "togglePlayPause" /\ isPlaying' /\ totalFrames' > 0
              /\ ClipNamed(model', currentAnimation') # <<>>) =>
              Cardinality(AnimationCallbacks') = 1 ]_vars

\* the editor was played, paused and played again while useAnimation, itself
\* played before, is playing
C30_Witness ==
    /\ calOp = "setIsPlaying" /\ calArg = TRUE
    /\ editorLastFrameTimeRef
    /\ Cardinality(EditorCallbacks) = 1
    /\ isPlaying /\ lastFrameTimeRef
    /\ Cardinality(AnimationCallbacks) = 1

----------------------------------------------------------------------------
(* Termination of exportSequence *)

\* C31: once called, exportSequence settles (it completes or aborts on its
\* first failure), and every renderFrame call it makes returns or throws,
\* for every export width and height.
C31_SequenceTerminates ==
    /\ (sPc \notin {"idle", "done"}) ~> (sPc = "done")
    /\ (rfPc = "awaitVerify") ~> (rfPc \in {"returned", "threw"})

----------------------------------------------------------------------------
(* The batch: progress and start conditions *)

\* the angles the batch has rotated to so far
AnglesStarted == Len(SelectSeq(batchLog, LAMBDA e : e.ev = "rotate"))

\* the angles whose export has returned to handleExport
AnglesReturned == IF hPc \in {"rotateSettle", "awaitSequence"}
                  THEN AnglesStarted - 1 ELSE AnglesStarted

BatchMayStart ==
    /\ calibration # <<>>
    /\ calibration[1].isFrontFaceSet
    /\ outputFolder # ""
    /\ currentAnimation # <<>>
    /\ totalFrames > 0
    /\ Len(selectedAngles) > 0

ProgressShown ==
    /\ isExporting => exportProgress = Rat(AnglesReturned * 100, Len(selectedAngles))
    /\ ~isExporting => exportProgress = RInt(0) /\ currentAngle = ""

\* C32: in a batch over n angles exportProgress is (i/n)*100 once the i-th
\* angle's export has returned and never decreases while isExporting; the
\* batch starts only with a calibration, a front face, an output folder, an
\* animation, totalFrames > 0 and at least one angle, and otherwise rotates
\* and exports nothing; whenever isExporting is false, exportProgress is 0
\* and currentAngle is null.
C32_BatchProgress ==
    [][ /\ ProgressShown /\ ProgressShown'
        /\ (isExporting /\ isExporting') => ~RLess(exportProgress', exportProgress)
        /\ (~isExporting /\ isExporting') => BatchMayStart
        /\ (hPc = "idle" /\ hPc' # "idle" /\ ~BatchMayStart) =>
              /\ ~isExporting'
              /\ UNCHANGED << rotationY, batchLog, seqInFlight, fsDirs, fsFiles >> ]_vars

\* the first of two angles has been exported: half of the progress bar
C32_Witness ==
    /\ isExporting /\ hPc = "pause"
    /\ Len(selectedAngles) = 2 /\ AnglesReturned = 1
    /\ exportProgress = RInt(50)

----------------------------------------------------------------------------
(* Names used as path segments *)

\* the path segments made from the animation name: the subdirectory of the
\* directory and of the frame files, and the stem of the sheet file
NameSegments ==
    { d.sub : d \in fsDirs }
      \cup { f.path.sub : f \in FilesOfKind("frame") }
      \cup { f.path.stem : f \in FilesOfKind("spritesheet") }

\* C33: the name used as a path segment by exportSequence and
\* exportSpriteSheet is the animation name with each of < > : " | ? * / \
\* replaced by _ and every other character kept: same length, none of those
\* characters, and sanitizing it again changes nothing.
C33_SanitizedSegment ==
    \A seg \in NameSegments :
        /\ Len(seg) = Len(currentAnimation)
        /\ \A i \in 1..Len(seg) :
              /\ seg[i] \notin {"<", ">", ":", "\"", "|", "?", "*", "/", "\\"}
              /\ seg[i] = IF currentAnimation[i] \in
                                {"<", ">", ":", "\"", "|", "?", "*", "/", "\\"}
                          THEN "_" ELSE currentAnimation[i]
        /\ Sanitize(seg) = seg

\* a name of two different characters of the list went into the directory,
\* a frame file and the sheet file
C33_Witness ==
    /\ currentAnimation = <<"/", ":">>
    /\ DirPath("out", <<"_", "_">>) \in fsDirs
    /\ \E f \in FilesOfKind("frame") : f.path.sub = <<"_", "_">>
    /\ \E f \in FilesOfKind("spritesheet") : f.path.stem = <<"_", "_">>

----------------------------------------------------------------------------
(* setFrontFace *)

\* C34: setFrontFace does nothing without a calibration; with a calibration
\* and the container it sets frontFaceRotation to the container's rotation
\* as it is now and isFrontFaceSet to true, keeps normalizedScale,
\* groundOffset, originalSize and targetHeight, and leaves the container's
\* transform alone; a second call right after the first changes nothing.
C34_SetFrontFaceFreezesRotation ==
    [][ calOp' = "setFrontFace" =>
          /\ calibration = <<>> => calibration' = <<>>
          /\ (calibration # <<>> /\ sceneAvail /\ hasContainer) =>
                /\ calibration' # <<>>
                /\ calibration'[1].frontFaceRotation = rotationY
                /\ calibration'[1].isFrontFaceSet
                /\ calibration'[1].normalizedScale = calibration[1].normalizedScale
                /\ calibration'[1].groundOffset = calibration[1].groundOffset
                /\ calibration'[1].originalSize = calibration[1].originalSize
                /\ calibration'[1].targetHeight = calibration[1].targetHeight
                /\ calibration'[1].originalScale = calibration[1].originalScale
          /\ UNCHANGED << rotationY, containerScale, containerY >>
          /\ calOp = "setFrontFace" => calibration' = calibration ]_vars

\* the model was turned away from where it was loaded and that rotation was
\* made the front face
C34_Witness ==
    /\ calOp = "setFrontFace"
    /\ calibration # <<>>
    /\ calibration[1].isFrontFaceSet
    /\ rotationY # 0
    /\ calibration[1].frontFaceRotation = rotationY

----------------------------------------------------------------------------
(* The frame plan: range *)

StrictlyIncreasing(s) == \A i, j \in DOMAIN s : i < j => s[i] < s[j]

\* C35: for every totalFrames >= 0 and renderSteps >= 0 the frame plan of
\* exportSequence is strictly increasing and each planned index lies within
\* 0..totalFrames-1.
C35_PlanWithinRange ==
    (plPc # "start" /\ totalFrames >= 0 /\ renderSteps >= 0) =>
        /\ StrictlyIncreasing(framesToRender)
        /\ \A k \in DOMAIN framesToRender :
              0 <= framesToRender[k] /\ framesToRender[k] <= totalFrames - 1

----------------------------------------------------------------------------
(* The editor's current frame *)

\* C36: in the frame editor, whenever some frame is active, currentFrame is
\* an index into the active subset (0 <= currentFrame < number of active
\* frames), so that a current active frame exists.
C36_CurrentFrameIsActiveIndex ==
    Len(getActiveFrames(frames)) > 0 =>
        /\ 0 <= editorCurrentFrame
        /\ editorCurrentFrame < Len(getActiveFrames(frames))

----------------------------------------------------------------------------
(* The files of the angles of a batch *)

ExportsCompleted == Len(SelectSeq(toasts, LAMBDA t : t.title = "Export Complete"))

\* the rotation the k-th angle of the batch is captured at
AngleTarget(k) == calibration[1].frontFaceRotation + AngleOffset(hAngles[k])

\* C37: in one batch the exports of two different angles do not write to
\* the same path: after the batch, for each angle, every planned frame and
\* the sprite sheet are on disk as captured at that angle.
C37_AnglesKeepTheirFiles ==
    (hPc = "finished" /\ ContainerFound /\ ExportsCompleted = Len(hAngles)) =>
        \A k \in 1..Len(hAngles) :
            /\ \A i \in 1..Len(framesToRender) :
                  \E f \in FilesOfKind("frame") :
                      /\ f.data.cells[1].frame = framesToRender[i]
                      /\ f.data.cells[1].rot = AngleTarget(k)
            /\ \E f \in FilesOfKind("spritesheet") :
                  \A c \in DOMAIN f.data.cells : f.data.cells[c].img.rot = AngleTarget(k)

----------------------------------------------------------------------------
(* The rotation at the captures of a batch *)

\* C38: while a batch is in flight, at every capture the container's
\* rotation is the target rotation of the batch's current angle; no action
\* left enabled to the user changes it between the batch's rotateToAngle and
\* the captures of that angle.
C38_CapturesAtBatchAngle ==
    (isExporting /\ rfPc = "awaitVerify") =>
        /\ calibration # <<>>
        /\ rfResult.rot = calibration[1].frontFaceRotation + AngleOffset(currentAngle)

----------------------------------------------------------------------------
(* useAnimation: the selection and the model *)

\* C39: in useAnimation, whenever currentAnimation is not null it names a
\* clip of the current model and totalFrames is floor(duration * 30) of that
\* clip; after the model is replaced by one without the selected clip,
\* totalFrames is not the count of the previous model's clip.
C39_SelectionBelongsToModel ==
    currentAnimation # <<>> =>
        /\ ClipNamed(model, currentAnimation) # <<>>
        /\ LET duration == ClipNamed(model, currentAnimation)[1].duration
           IN /\ totalFrames * duration.d <= AnimationFps * duration.n
              /\ AnimationFps * duration.n < (totalFrames + 1) * duration.d

----------------------------------------------------------------------------
(* Playback timers: the reference time across a pause *)

\* C40: in both playback loops the reference time of the last advance does
\* not survive a pause, so that after a resume the first callback, which
\* runs within one display frame of the resume, starts a new interval and
\* does not advance the frame.
C40_ResumeStartsNewInterval ==
    [][ /\ ~editorIsPlaying' => ~editorLastFrameTimeRef'
        /\ ~isPlaying' => ~lastFrameTimeRef'
        /\ (calOp = "setIsPlaying" /\ calArg = TRUE /\ calOp' = "updateFrame") =>
              calArg' = "wait"
        /\ (calOp = "togglePlayPause" /\ isPlaying /\ calOp' = "animation.updateFrame") =>
              calArg' = "wait" ]_vars

====
